---- MODULE Spec2Model ----
(***************************************************************************)
(* KBUS: a kernel-mediated publish/subscribe and request/reply message     *)
(* bus.  The model follows the behaviour of one KBUS device as it is seen  *)
(* through Ksocks by test_kbus.py, and the Message flags of messages.py.   *)
(*                                                                         *)
(* A message name "$.Fred.Jim" is the sequence <<"Fred", "Jim">> of its    *)
(* components after the leading "$"; a binding name may end in the         *)
(* wildcard component "*" or "%".                                          *)
(***************************************************************************)
EXTENDS Bags, FiniteSets, Integers, Sequences, TLC

(***************************************************************************)
(* Message flags (messages.py, class Message).                             *)
(***************************************************************************)
WANT_A_REPLY == 1
WANT_YOU_TO_REPLY == 2
SYNTHETIC == 4
URGENT == 8
ALL_OR_WAIT == 256
ALL_OR_FAIL == 512

\* flags & bit, for a single-bit mask
HasFlag(flags, bit) == (flags \div bit) % 2 = 1

\* _set_bit(value, which)
SetFlag(flags, bit) == IF HasFlag(flags, bit) THEN flags ELSE flags + bit

\* _clear_bit(value, which)
ClearFlag(flags, bit) == IF HasFlag(flags, bit) THEN flags - bit ELSE flags

(***************************************************************************)
(* Bounds of the model.                                                    *)
(***************************************************************************)
\* the number of successful sends (the last message id that is handed out)
MaxSends == 2
\* the number of bindings that may be held at one time
MaxBindings == 2

\* the queue sizes that Ksocks are given by set_max_messages
QueueSizes == {1, 2}

\* the Ksocks that may ever be opened on the device; Ksock ids start at 1
KsockIds == {1, 2, 3}

(***************************************************************************)
(* Names.                                                                  *)
(***************************************************************************)
Fred == <<"Fred">>
FredJim == <<"Fred", "Jim">>
FredBob == <<"Fred", "Bob">>
FredStar == <<"Fred", "*">>
FredPercent == <<"Fred", "%">>
Jim == <<"Jim">>

FredJimBob == <<"Fred", "Jim", "Bob">>
JimFred == <<"Jim", "Fred">>

\* the names of the synthetic messages KBUS generates
ReplierGoneAway == <<"KBUS", "Replier", "GoneAway">>
ReplierUnbound == <<"KBUS", "Replier", "Unbound">>
ReplierQueueFull == <<"KBUS", "Replier", "QueueFull">>

Last(s) == s[Len(s)]
Front(s) == SubSeq(s, 1, Len(s) - 1)

\* a name whose last component is a wildcard
IsWildcard(name) == Len(name) > 0 /\ Last(name) \in {"*", "%"}

\* matching in which "*" also stands for no component at all
NameMatches_zero_or_more(pattern, name) ==
    IF ~IsWildcard(pattern)
    THEN pattern = name
    ELSE LET prefix == Front(pattern) IN
         /\ Len(name) >= Len(prefix)
         /\ SubSeq(name, 1, Len(prefix)) = prefix
         /\ Last(pattern) = "%" => Len(name) = Len(prefix) + 1

\* matching in which "%" stands for any number of components, as "*" does
NameMatches_percent_as_star(pattern, name) ==
    IF ~IsWildcard(pattern)
    THEN pattern = name
    ELSE LET prefix == Front(pattern) IN
         /\ Len(name) > Len(prefix)
         /\ SubSeq(name, 1, Len(prefix)) = prefix

\* does a message called `name` match the binding name `pattern`
NameMatches(pattern, name) ==
    IF ~IsWildcard(pattern)
    THEN pattern = name
    ELSE LET prefix == Front(pattern) IN
         /\ Len(name) > Len(prefix)
         /\ SubSeq(name, 1, Len(prefix)) = prefix
         /\ Last(pattern) = "%" => Len(name) = Len(prefix) + 1

\* "*" taken to be more specific than "%"
Specificity_star_first(pattern) ==
    IF ~IsWildcard(pattern) THEN 1000
    ELSE 2 * Len(pattern) + (IF Last(pattern) = "*" THEN 1 ELSE 0)

\* the binding names ranked by length alone, the longer the better
Specificity_by_length(pattern) ==
    2 * Len(pattern) + (IF Last(pattern) = "%" THEN 1 ELSE 0)

\* how specific a binding name is: an exact name beats any wildcard, a longer
\* wildcard beats a shorter one, and "%" beats "*" on the same prefix
Specificity(pattern) ==
    IF ~IsWildcard(pattern) THEN 1000
    ELSE 2 * Len(pattern) + (IF Last(pattern) = "%" THEN 1 ELSE 0)

(***************************************************************************)
(* State.                                                                  *)
(***************************************************************************)
VARIABLES
    ksocks,         \* Ksock id -> "unopened", "open" or "closed"
    bindings,       \* bag of [name, ksock, replier]
    queue,          \* Ksock id -> sequence of messages waiting to be read
    max_messages,   \* Ksock id -> maximum length of its queue
    last_msg_id,    \* serial number of the last message id handed out
    outstanding,    \* sequence of requests given to a replier, unanswered
    blocked,        \* Ksock id -> the message its suspended send is sending
    ret,            \* what the last call returned: [errno, id]
    sizeof_pointer, \* messages.py: the size of a C pointer in this build
    msg1,           \* messages.py: the first message (or id) at hand
    msg2,           \* messages.py: the second
    msg3,           \* messages.py: the third
    msg_as_string,  \* messages.py: the bytes that to_bytes() returned
    result          \* messages.py: what the last call returned

\* the state of the KBUS device
kvars ==
    <<ksocks, bindings, queue, max_messages, last_msg_id, outstanding,
      blocked, ret>>

\* the state of a program that uses messages.py
pyvars == <<sizeof_pointer, msg1, msg2, msg3, msg_as_string, result>>

vars == <<kvars, pyvars>>

\* Python's None; a value that may be None is otherwise the one-element
\* sequence of what it is
None == <<>>
Some(x) == <<x>>

\* what a call returned, or the exception it raised
Returned(x) == [error |-> "", value |-> Some(x)]
Raised(error) == [error |-> error, value |-> None]
NoResult == [error |-> "", value |-> None]

\* no message has been made
NoPython ==
    /\ sizeof_pointer = 8
    /\ msg1 = None /\ msg2 = None /\ msg3 = None
    /\ msg_as_string = None
    /\ result = NoResult

Binding(name, ksock, replier) ==
    [name |-> name, ksock |-> ksock, replier |-> replier]

Ret(errno, id) == [errno |-> errno, id |-> id]

IsOpen(k) == ksocks[k] = "open"

\* the replier bindings for exactly this binding name
RepliersBoundTo(name) ==
    {b \in BagToSet(bindings) : b.replier /\ b.name = name}

Range(s) == {s[i] : i \in 1 .. Len(s)}

\* s without the elements that are not in `keep`
RECURSIVE SelectKeep(_, _)
SelectKeep(s, keep) ==
    IF s = <<>> THEN <<>>
    ELSE IF Head(s) \in keep
         THEN <<Head(s)>> \o SelectKeep(Tail(s), keep)
         ELSE SelectKeep(Tail(s), keep)

(***************************************************************************)
(* open: the next Ksock id is handed out, with an empty queue.             *)
(***************************************************************************)
open(k) ==
    /\ ksocks[k] = "unopened"
    /\ \A j \in KsockIds : j < k => ksocks[j] # "unopened"
    /\ ksocks' = [ksocks EXCEPT ![k] = "open"]
    /\ ret' = Ret("OK", 0)
    /\ UNCHANGED <<bindings, queue, max_messages, last_msg_id, outstanding,
                   blocked>>
    /\ UNCHANGED pyvars

(***************************************************************************)
(* set_max_messages(n), n > 0, on a Ksock that has nothing queued.         *)
(***************************************************************************)
set_max_messages(k, n) ==
    /\ IsOpen(k)
    /\ n \in QueueSizes
    /\ queue[k] = <<>>
    /\ n # max_messages[k]
    /\ max_messages' = [max_messages EXCEPT ![k] = n]
    /\ ret' = Ret("OK", 0)
    /\ UNCHANGED <<ksocks, bindings, queue, last_msg_id, outstanding, blocked>>
    /\ UNCHANGED pyvars

(***************************************************************************)
(* bind(name, replier)                                                     *)
(***************************************************************************)
\* bind that looks only at the bindings of the Ksock that is binding
bind_errno_own(k, name, replier) ==
    IF replier /\ \E b \in RepliersBoundTo(name) : b.ksock = k
    THEN "EADDRINUSE" ELSE "OK"

bind_errno(k, name, replier) ==
    IF replier /\ RepliersBoundTo(name) # {} THEN "EADDRINUSE" ELSE "OK"

bind(k, name, replier) ==
    /\ IsOpen(k)
    /\ LET errno == bind_errno(k, name, replier) IN
       /\ errno = "OK" => BagCardinality(bindings) < MaxBindings
       /\ ret' = Ret(errno, 0)
       /\ bindings' = IF errno = "OK"
                      THEN bindings (+) SetToBag({Binding(name, k, replier)})
                      ELSE bindings
    /\ UNCHANGED <<ksocks, queue, max_messages, last_msg_id, outstanding,
                   blocked>>
    /\ UNCHANGED pyvars

(***************************************************************************)
(* Messages.  A message as the sender builds it has no id and no from;     *)
(* KBUS sets both when it accepts the message.                             *)
(***************************************************************************)
Message(name, data, to, in_reply_to, flags) ==
    [id |-> 0, in_reply_to |-> in_reply_to, to |-> to, from |-> 0,
     flags |-> flags, name |-> name, data |-> data]

Request(name, data, to, flags) ==
    Message(name, data, to, 0, SetFlag(flags, WANT_A_REPLY))

is_request(m) == HasFlag(m.flags, WANT_A_REPLY)
is_reply(m) == m.in_reply_to # 0
wants_us_to_reply(m) == HasFlag(m.flags, WANT_YOU_TO_REPLY)
is_synthetic(m) == HasFlag(m.flags, SYNTHETIC)
is_urgent(m) == HasFlag(m.flags, URGENT)

\* what `blocked` holds for a Ksock that has no suspended send
NoMsg == Message(<<>>, "", 0, 0, 0)

\* a copy that keeps the message id the sender wrote in the message
Copy_keep_id(m, from, id, for_replier) ==
    [m EXCEPT !.from = from,
              !.flags = IF for_replier
                        THEN SetFlag(m.flags, WANT_YOU_TO_REPLY)
                        ELSE ClearFlag(m.flags, WANT_YOU_TO_REPLY)]

\* a copy that keeps the flags of m and adds WANT_YOU_TO_REPLY for every
\* reader of a request
Copy_flag_all(m, from, id, for_replier) ==
    [m EXCEPT !.id = id, !.from = from,
              !.flags = IF is_request(m)
                        THEN SetFlag(m.flags, WANT_YOU_TO_REPLY)
                        ELSE m.flags]

\* the copy of message m, sent by Ksock `from` with message id `id`, that a
\* recipient reads: only the replier's copy has WANT_YOU_TO_REPLY
Copy(m, from, id, for_replier) ==
    [m EXCEPT !.id = id, !.from = from,
              !.flags = IF for_replier
                        THEN SetFlag(m.flags, WANT_YOU_TO_REPLY)
                        ELSE ClearFlag(m.flags, WANT_YOU_TO_REPLY)]

\* the message KBUS makes up to tell the sender of a request what became of it
Synthetic(name, replier, sender, request_id) ==
    [id |-> 0, in_reply_to |-> request_id, to |-> sender, from |-> replier,
     flags |-> SYNTHETIC, name |-> name, data |-> ""]

(***************************************************************************)
(* Queues.                                                                 *)
(***************************************************************************)
\* every message goes to the back of the queue, urgent or not
Push_back(q, m) == Append(q, m)

\* an urgent message goes after the urgent messages at the front of the queue
Push_after_urgent(q, m) ==
    IF is_urgent(m)
    THEN LET n == Cardinality({i \in 1 .. Len(q) :
                     \A h \in 1 .. i : is_urgent(q[h])})
         IN SubSeq(q, 1, n) \o <<m>> \o SubSeq(q, n + 1, Len(q))
    ELSE Append(q, m)

\* an urgent message goes to the front of the queue, any other to the back
Push(q, m) == IF is_urgent(m) THEN <<m>> \o q ELSE Append(q, m)

RECURSIVE PushCopies(_, _, _)
PushCopies(q, m, n) == IF n = 0 THEN q ELSE PushCopies(Push(q, m), m, n - 1)

QueueIsFull(q, k) == Len(q[k]) >= max_messages[k]

RoomIn(q, k) ==
    IF Len(q[k]) >= max_messages[k] THEN 0 ELSE max_messages[k] - Len(q[k])

Min(a, b) == IF a <= b THEN a ELSE b

(***************************************************************************)
(* Who is sent a message.                                                  *)
(***************************************************************************)
MatchingRepliers(name) ==
    {b \in BagToSet(bindings) : b.replier /\ NameMatches(b.name, name)}

\* the replier binding for a name: the most specific of those that match
FindReplier(name) ==
    CHOOSE b \in MatchingRepliers(name) :
        \A c \in MatchingRepliers(name) :
            Specificity(c.name) <= Specificity(b.name)

MatchingListeners(name, k) ==
    {b \in BagToSet(bindings) :
        ~b.replier /\ b.ksock = k /\ NameMatches(b.name, name)}

\* one copy for a Ksock that listens for the name, however often
ListenerCopies_per_ksock(name, k) ==
    IF MatchingListeners(name, k) = {} THEN 0 ELSE 1

RECURSIVE SumCopies(_)
SumCopies(bs) ==
    IF bs = {} THEN 0
    ELSE LET b == CHOOSE x \in bs : TRUE
         IN CopiesIn(b, bindings) + SumCopies(bs \ {b})

\* one copy for each listener binding of Ksock k that matches the name
ListenerCopies(name, k) == SumCopies(MatchingListeners(name, k))

(***************************************************************************)
(* Requests that a replier has been given and has not answered:            *)
(* [id, name, binding, replier, sender], oldest first.                     *)
(***************************************************************************)
Pending(id, name, binding, replier, sender) ==
    [id |-> id, name |-> name, binding |-> binding,
     replier |-> replier, sender |-> sender]

\* the requests that a reply sent by Ksock k answers
AnsweredBy(k, m) ==
    {o \in Range(outstanding) :
        o.id = m.in_reply_to /\ o.replier = k /\ o.sender = m.to}

(***************************************************************************)
(* send                                                                    *)
(***************************************************************************)
\* the Ksocks that are sent a copy of m because they listen for its name
ListenerKsocks(m) == {j \in KsockIds : ListenerCopies(m.name, j) > 0}

\* a reply is sent to the Ksock it is addressed to only if that Ksock is
\* bound to its name
Recipient_bound_only(m) ==
    IF is_request(m)
    THEN IF MatchingRepliers(m.name) = {} THEN 0
         ELSE FindReplier(m.name).ksock
    ELSE IF /\ is_reply(m) /\ m.to \in KsockIds /\ IsOpen(m.to)
            /\ \/ ListenerCopies(m.name, m.to) > 0
               \/ \E b \in MatchingRepliers(m.name) : b.ksock = m.to
    THEN m.to
    ELSE 0

\* the replier for the name is sent m itself whether m is a request or not
Recipient_plain_too(m) ==
    IF is_reply(m)
    THEN IF m.to \in KsockIds /\ IsOpen(m.to) THEN m.to ELSE 0
    ELSE IF MatchingRepliers(m.name) = {} THEN 0
    ELSE FindReplier(m.name).ksock

\* the Ksock that is sent m itself: the replier of a request, or the Ksock a
\* reply is addressed to; 0 if there is none
Recipient(m) ==
    IF is_request(m)
    THEN IF MatchingRepliers(m.name) = {} THEN 0
         ELSE FindReplier(m.name).ksock
    ELSE IF is_reply(m) /\ m.to \in KsockIds /\ IsOpen(m.to) THEN m.to
    ELSE 0

\* the number of copies of m that Ksock j is to get: the replier's, or the
\* one a reply is addressed to, and one for each matching listener binding
Wanted(m, j) ==
    (IF j = Recipient(m) THEN 1 ELSE 0) + ListenerCopies(m.name, j)

\* the Ksock that is sent m itself has room for it; the listeners are not
\* looked at
TargetsHaveRoom_recipient_only(m) ==
    Recipient(m) = 0 \/ RoomIn(queue, Recipient(m)) >= 1

\* one Ksock that m is for has room for its copies; the others are not
\* looked at
TargetsHaveRoom_some(m) ==
    \E j \in KsockIds : Wanted(m, j) > 0 /\ RoomIn(queue, j) >= Wanted(m, j)

\* every Ksock must have room for its copies and for one message more
TargetsHaveRoom_spare(m) ==
    \A j \in KsockIds :
        Wanted(m, j) > 0 => RoomIn(queue, j) > Wanted(m, j)

\* every Ksock that is to get copies of m has room for all of them
TargetsHaveRoom(m) == \A j \in KsockIds : RoomIn(queue, j) >= Wanted(m, j)

\* send that takes a wildcard name for a name like any other
send_errno_any_name(k, m) ==
    IF HasFlag(m.flags, ALL_OR_WAIT) /\ HasFlag(m.flags, ALL_OR_FAIL)
    THEN "EINVAL"
    ELSE IF is_request(m) /\ Recipient(m) = 0 THEN "EADDRNOTAVAIL"
    ELSE IF is_request(m) /\ m.to # 0 /\ Recipient(m) # m.to THEN "EPIPE"
    ELSE IF HasFlag(m.flags, ALL_OR_FAIL) /\ ~TargetsHaveRoom(m) THEN "EBUSY"
    ELSE "OK"

\* send that lets ALL_OR_WAIT and ALL_OR_FAIL be set together
send_errno_any_flags(k, m) ==
    IF IsWildcard(m.name) THEN "EBADMSG"
    ELSE IF is_request(m) /\ Recipient(m) = 0 THEN "EADDRNOTAVAIL"
    ELSE IF is_request(m) /\ m.to # 0 /\ Recipient(m) # m.to THEN "EPIPE"
    ELSE IF HasFlag(m.flags, ALL_OR_FAIL) /\ ~TargetsHaveRoom(m) THEN "EBUSY"
    ELSE "OK"

\* send that gives a request to whoever is the replier now, whatever its
\* `to` says
send_errno_reroute(k, m) ==
    IF IsWildcard(m.name) THEN "EBADMSG"
    ELSE IF HasFlag(m.flags, ALL_OR_WAIT) /\ HasFlag(m.flags, ALL_OR_FAIL)
    THEN "EINVAL"
    ELSE IF is_request(m) /\ Recipient(m) = 0 THEN "EADDRNOTAVAIL"
    ELSE IF HasFlag(m.flags, ALL_OR_FAIL) /\ ~TargetsHaveRoom(m) THEN "EBUSY"
    ELSE "OK"

\* send that does not ask whether a request has a replier
send_errno_no_replier_check(k, m) ==
    IF IsWildcard(m.name) THEN "EBADMSG"
    ELSE IF HasFlag(m.flags, ALL_OR_WAIT) /\ HasFlag(m.flags, ALL_OR_FAIL)
    THEN "EINVAL"
    ELSE "OK"

send_errno(k, m) ==
    IF IsWildcard(m.name) THEN "EBADMSG"
    ELSE IF HasFlag(m.flags, ALL_OR_WAIT) /\ HasFlag(m.flags, ALL_OR_FAIL)
    THEN "EINVAL"
    ELSE IF is_request(m) /\ Recipient(m) = 0 THEN "EADDRNOTAVAIL"
    ELSE IF is_request(m) /\ m.to # 0 /\ Recipient(m) # m.to THEN "EPIPE"
    ELSE IF HasFlag(m.flags, ALL_OR_FAIL) /\ ~TargetsHaveRoom(m) THEN "EBUSY"
    ELSE "OK"

\* the replier of a request has no room for it
ReplierIsFull(m) ==
    is_request(m) /\ Recipient(m) # 0 /\ QueueIsFull(queue, Recipient(m))

\* a full replier's request is dropped and nobody is told
AfterRecipient_drop(k, m, id) ==
    LET r == Recipient(m) IN
    IF r = 0 \/ QueueIsFull(queue, r) THEN queue
    ELSE [queue EXCEPT ![r] = Push(@, Copy(m, k, id, is_request(m)))]

\* the queues once the replier of a request, or the Ksock a reply is for,
\* has been dealt with
AfterRecipient(k, m, id) ==
    LET r == Recipient(m) IN
    IF r = 0 THEN queue
    ELSE IF is_request(m) /\ QueueIsFull(queue, r)
    THEN [queue EXCEPT ![k] =
             Append(@, Synthetic(ReplierQueueFull, r, k, id))]
    ELSE IF QueueIsFull(queue, r) THEN queue
    ELSE [queue EXCEPT ![r] = Push(@, Copy(m, k, id, is_request(m)))]

\* the listeners get their copies whatever became of the replier's
ListenersAreSent_always(m) == TRUE

\* do the listeners get their copies of m
ListenersAreSent(m) == ~ReplierIsFull(m)

\* the listeners get their copies whether they have room or not
AfterListeners_overflow(q, k, m, id) ==
    [j \in KsockIds |->
        PushCopies(q[j], Copy(m, k, id, FALSE), ListenerCopies(m.name, j))]

\* the queues once the listeners have been dealt with: each gets as many
\* copies as it has matching bindings and room
AfterListeners(q, k, m, id) ==
    [j \in KsockIds |->
        PushCopies(q[j], Copy(m, k, id, FALSE),
                   Min(ListenerCopies(m.name, j), RoomIn(q, j)))]

\* a request stays with its replier when it has been replied to
TrackAfterSend_keep_answered(k, m, id) ==
    IF is_request(m)
    THEN IF Recipient(m) = 0 \/ ReplierIsFull(m) THEN outstanding
         ELSE Append(outstanding,
                     Pending(id, m.name, FindReplier(m.name).name,
                             Recipient(m), k))
    ELSE outstanding

\* the unanswered requests once m has been sent
TrackAfterSend(k, m, id) ==
    IF is_request(m)
    THEN IF Recipient(m) = 0 \/ ReplierIsFull(m) THEN outstanding
         ELSE Append(outstanding,
                     Pending(id, m.name, FindReplier(m.name).name,
                             Recipient(m), k))
    ELSE IF is_reply(m)
    THEN SelectKeep(outstanding, Range(outstanding) \ AnsweredBy(k, m))
    ELSE outstanding

\* the message m of Ksock k is given the next message id and is queued for
\* those it is sent to
Deliver(k, m) ==
    LET id == last_msg_id + 1
    IN /\ last_msg_id < MaxSends
       /\ last_msg_id' = id
       /\ ret' = Ret("OK", id)
       /\ queue' = IF ListenersAreSent(m)
                   THEN AfterListeners(AfterRecipient(k, m, id), k, m, id)
                   ELSE AfterRecipient(k, m, id)
       /\ outstanding' = TrackAfterSend(k, m, id)

\* must the send of m wait: it is ALL_OR_WAIT and some Ksock has no room
MustWait(m) == HasFlag(m.flags, ALL_OR_WAIT) /\ ~TargetsHaveRoom(m)

send(k, m) ==
    /\ IsOpen(k)
    /\ blocked[k] = NoMsg
    /\ LET errno == send_errno(k, m)
       IN IF errno # "OK"
          THEN /\ ret' = Ret(errno, 0)
               /\ UNCHANGED <<queue, last_msg_id, outstanding, blocked>>
          ELSE IF MustWait(m)
          THEN /\ last_msg_id < MaxSends
               /\ blocked' = [blocked EXCEPT ![k] = m]
               /\ UNCHANGED <<queue, last_msg_id, outstanding, ret>>
          ELSE /\ Deliver(k, m)
               /\ UNCHANGED blocked
    /\ UNCHANGED <<ksocks, bindings, max_messages>>
    /\ UNCHANGED pyvars

(***************************************************************************)
(* wake: the suspended send of Ksock k looks again at all the Ksocks its   *)
(* message is for, in one step, and goes through if they all have room.    *)
(***************************************************************************)
wake(k) ==
    /\ IsOpen(k)
    /\ blocked[k] # NoMsg
    /\ LET m == blocked[k]
           errno == send_errno(k, m)
       IN IF errno # "OK"
          THEN /\ ret' = Ret(errno, 0)
               /\ UNCHANGED <<queue, last_msg_id, outstanding>>
          ELSE /\ TargetsHaveRoom(m)
               /\ Deliver(k, m)
    /\ blocked' = [blocked EXCEPT ![k] = NoMsg]
    /\ UNCHANGED <<ksocks, bindings, max_messages>>
    /\ UNCHANGED pyvars

(***************************************************************************)
(* read_next_msg: take the message at the front of the queue.              *)
(***************************************************************************)
read_next_msg(k) ==
    /\ IsOpen(k)
    /\ queue[k] # <<>>
    /\ queue' = [queue EXCEPT ![k] = Tail(@)]
    /\ ret' = Ret("OK", 0)
    /\ UNCHANGED <<ksocks, bindings, max_messages, last_msg_id, outstanding,
                   blocked>>
    /\ UNCHANGED pyvars

(***************************************************************************)
(* Telling the senders of unanswered requests that their replier has gone. *)
(***************************************************************************)
\* the synthetic messages are put at the front of the senders' queues
RECURSIVE TellSenders_front(_, _, _)
TellSenders_front(q, lost, name) ==
    IF lost = <<>> THEN q
    ELSE LET o == Head(lost)
             told == IF IsOpen(o.sender)
                     THEN [q EXCEPT ![o.sender] =
                              <<Synthetic(name, o.replier, o.sender, o.id)>>
                                  \o @]
                     ELSE q
         IN TellSenders_front(told, Tail(lost), name)

\* a synthetic message is queued only for a Ksock whose queue has room
StatusFits_if_room(q, s) == RoomIn(q, s) >= 1

\* a synthetic message is queued for its Ksock whatever the queue holds
StatusFits(q, s) == TRUE

\* the queues after the senders of the requests in `lost` (oldest first)
\* have each been sent the synthetic message `name`
RECURSIVE TellSenders(_, _, _)
TellSenders(q, lost, name) ==
    IF lost = <<>> THEN q
    ELSE LET o == Head(lost)
             told == IF IsOpen(o.sender) /\ StatusFits(q, o.sender)
                     THEN [q EXCEPT ![o.sender] =
                              Append(@, Synthetic(name, o.replier,
                                                  o.sender, o.id))]
                     ELSE q
         IN TellSenders(told, Tail(lost), name)

\* q without any request that its reader was to reply to
RECURSIVE WithoutRequests_any(_, _)
WithoutRequests_any(q, lost) ==
    IF q = <<>> THEN <<>>
    ELSE IF wants_us_to_reply(Head(q))
         THEN WithoutRequests_any(Tail(q), lost)
         ELSE <<Head(q)>> \o WithoutRequests_any(Tail(q), lost)

\* q without the replier's copies of the requests in `lost`
RECURSIVE WithoutRequests(_, _)
WithoutRequests(q, lost) ==
    IF q = <<>> THEN <<>>
    ELSE IF wants_us_to_reply(Head(q)) /\ Head(q).id \in {o.id : o \in lost}
         THEN WithoutRequests(Tail(q), lost)
         ELSE <<Head(q)>> \o WithoutRequests(Tail(q), lost)

(***************************************************************************)
(* unbind(name, replier)                                                   *)
(***************************************************************************)
\* a binding of the Ksock to the name in either role will do
unbind_errno_any_role(k, name, replier) ==
    IF \E r \in BOOLEAN : BagIn(Binding(name, k, r), bindings)
    THEN "OK" ELSE "EINVAL"

unbind_errno(k, name, replier) ==
    IF BagIn(Binding(name, k, replier), bindings) THEN "OK" ELSE "EINVAL"

\* the unanswered requests that Ksock k was given through its replier
\* binding to `name`
LostByUnbind(k, name) ==
    {o \in Range(outstanding) : o.replier = k /\ o.binding = name}

unbind(k, name, replier) ==
    /\ IsOpen(k)
    /\ LET errno == unbind_errno(k, name, replier)
           lost == IF replier THEN LostByUnbind(k, name) ELSE {}
       IN /\ ret' = Ret(errno, 0)
          /\ IF errno # "OK"
             THEN UNCHANGED <<bindings, queue, outstanding>>
             ELSE /\ bindings' =
                        bindings (-) SetToBag({Binding(name, k, replier)})
                  /\ queue' =
                        TellSenders(
                            [queue EXCEPT ![k] = WithoutRequests(@, lost)],
                            SelectKeep(outstanding, lost), ReplierUnbound)
                  /\ outstanding' =
                        SelectKeep(outstanding, Range(outstanding) \ lost)
    /\ UNCHANGED <<ksocks, max_messages, last_msg_id, blocked>>
    /\ UNCHANGED pyvars

(***************************************************************************)
(* close                                                                   *)
(***************************************************************************)
\* the unanswered requests that Ksock k was to reply to
LostByClose(k) == {o \in Range(outstanding) : o.replier = k}

\* the Ksock's listener bindings outlive it
close_keeps_listeners(k) ==
    /\ IsOpen(k)
    /\ LET lost == LostByClose(k)
           closed == [ksocks EXCEPT ![k] = "closed"]
       IN /\ ksocks' = closed
          /\ bindings' =
                [b \in {c \in BagToSet(bindings) : c.ksock # k \/ ~c.replier} |->
                    bindings[b]]
          /\ queue' =
                [TellSenders([queue EXCEPT ![k] = <<>>],
                             SelectKeep(outstanding,
                                        {o \in lost : o.sender # k}),
                             ReplierGoneAway)
                 EXCEPT ![k] = <<>>]
          /\ outstanding' =
                SelectKeep(outstanding, Range(outstanding) \ lost)
    /\ blocked' = [blocked EXCEPT ![k] = NoMsg]
    /\ ret' = Ret("OK", 0)
    /\ UNCHANGED <<max_messages, last_msg_id>>
    /\ UNCHANGED pyvars

\* a send that is suspended goes on when its Ksock closes
SendIsCancelled_never(k) == FALSE

\* the suspended send of a Ksock that closes is given up, and returns
\* Cancelled
SendIsCancelled(k) == blocked[k] # NoMsg

close(k) ==
    /\ IsOpen(k)
    /\ LET lost == LostByClose(k)
           closed == [ksocks EXCEPT ![k] = "closed"]
       IN /\ ksocks' = closed
          /\ bindings' =
                [b \in {c \in BagToSet(bindings) : c.ksock # k} |->
                    bindings[b]]
          /\ queue' =
                [TellSenders([queue EXCEPT ![k] = <<>>],
                             SelectKeep(outstanding,
                                        {o \in lost : o.sender # k}),
                             ReplierGoneAway)
                 EXCEPT ![k] = <<>>]
          /\ outstanding' =
                SelectKeep(outstanding, Range(outstanding) \ lost)
    /\ IF SendIsCancelled(k)
       THEN /\ blocked' = [blocked EXCEPT ![k] = NoMsg]
            /\ ret' = Ret("Cancelled", 0)
       ELSE /\ blocked' = blocked
            /\ ret' = Ret("OK", 0)
    /\ UNCHANGED <<max_messages, last_msg_id>>
    /\ UNCHANGED pyvars

(***************************************************************************)
(* reply_to(original): the reply to a request that has been read.          *)
(***************************************************************************)
\* Reply(name, data=data, to=to, in_reply_to=in_reply_to, flags=flags): a
\* Reply must say what it is in reply to
Reply(name, data, to, in_reply_to, flags) ==
    IF in_reply_to = 0 THEN Raised("ValueError")
    ELSE Returned(Message(name, data, to, in_reply_to, flags))

\* any request can be replied to, whoever is to reply to it
reply_to_any_request(original, data, flags) ==
    IF ~HasFlag(original.flags, WANT_A_REPLY) THEN Raised("ValueError")
    ELSE Reply(original.name, data, original.from, original.id, flags)

\* data "" is no data
reply_to(original, data, flags) ==
    IF ~(/\ HasFlag(original.flags, WANT_A_REPLY)
         /\ HasFlag(original.flags, WANT_YOU_TO_REPLY))
    THEN Raised("ValueError")
    ELSE Reply(original.name, data, original.from, original.id, flags)

\* the request of the sender's that Ksock o.replier was given to answer
RequestGiven(o) == Copy(Request(o.name, "data", 0, 0), o.sender, o.id, TRUE)

\* the requests Ksock k has read and not answered, whose sender is there
CanReplyTo(k) ==
    {o \in Range(outstanding) :
        /\ o.replier = k
        /\ IsOpen(o.sender)
        /\ ~\E i \in 1 .. Len(queue[k]) :
               queue[k][i].id = o.id /\ wants_us_to_reply(queue[k][i])}

(***************************************************************************)
(* The device.                                                             *)
(***************************************************************************)
NoBindings == EmptyBag

\* the device when it has just been loaded
Init ==
    /\ ksocks = [k \in KsockIds |-> "unopened"]
    /\ bindings = NoBindings
    /\ queue = [k \in KsockIds |-> <<>>]
    /\ max_messages \in [KsockIds -> QueueSizes]
    /\ last_msg_id = 0
    /\ outstanding = <<>>
    /\ blocked = [k \in KsockIds |-> NoMsg]
    /\ NoPython
    /\ ret = Ret("OK", 0)

\* the device with its three Ksocks open, each given its queue size, and
\* nothing else done
InitOpen ==
    /\ ksocks = [k \in KsockIds |-> "open"]
    /\ bindings = NoBindings
    /\ queue = [k \in KsockIds |-> <<>>]
    /\ max_messages \in {f \in [KsockIds -> QueueSizes] : f[1] = 2 /\ f[3] = 2}
    /\ last_msg_id = 0
    /\ outstanding = <<>>
    /\ blocked = [k \in KsockIds |-> NoMsg]
    /\ NoPython
    /\ ret = Ret("OK", 0)

(***************************************************************************)
(* Ksocks 1 and 2 send messages and requests called $.Fred; Ksocks 2 and 3 *)
(* bind to $.Fred, as replier or as listener, and close; every Ksock reads *)
(* and replies. Unbinding is left to SpecBind and SpecUnbind.              *)
(***************************************************************************)
Senders == {1, 2}
Binders == {2, 3}
Msgs == {Message(Fred, "data", 0, 0, 0), Request(Fred, "data", 0, 0)}

Next ==
    \/ \E k \in Binders : close(k)
    \/ \E k \in Binders, replier \in BOOLEAN : bind(k, Fred, replier)
    \/ \E k \in Senders, m \in Msgs : send(k, m)
    \/ \E k \in KsockIds : \E o \in CanReplyTo(k) :
          send(k, reply_to(RequestGiven(o), "", 0).value[1])
    \/ \E k \in KsockIds : read_next_msg(k)

Spec == InitOpen /\ [][Next]_vars

(***************************************************************************)
(* Ksocks are opened and closed, and bind to and unbind from $.Fred and    *)
(* $.Fred.*, and nothing is sent.                                          *)
(***************************************************************************)
BindNames == {Fred, FredStar}

NextBind ==
    \/ \E k \in KsockIds : open(k)
    \/ \E k \in KsockIds : close(k)
    \/ \E k \in KsockIds, name \in BindNames, replier \in BOOLEAN :
          bind(k, name, replier)
    \/ \E k \in KsockIds, name \in BindNames, replier \in BOOLEAN :
          unbind(k, name, replier)

SpecBind == Init /\ [][NextBind]_vars

(***************************************************************************)
(* Ksocks 2 and 3 bind to $.Fred.* and to $.Fred.Jim, and Ksock 1 sends    *)
(* requests called $.Fred.Jim and $.Fred.Bob.                              *)
(***************************************************************************)
WildNames == {FredStar, FredJim}
WildMsgs == {Request(FredJim, "data", 0, 0), Request(FredBob, "data", 0, 0)}

NextWild ==
    \/ \E k \in Binders, name \in WildNames, replier \in BOOLEAN :
          bind(k, name, replier)
    \/ \E m \in WildMsgs : send(1, m)
    \/ \E k \in KsockIds : read_next_msg(k)

SpecWild == InitOpen /\ [][NextWild]_vars

(***************************************************************************)
(* Ksock 2 is bound to $.Fred and to $.Jim, to each as replier and as      *)
(* listener; messages and requests with these names are sent, and Ksock 2  *)
(* reads, replies, unbinds and closes.                                     *)
(***************************************************************************)
UnbindNames == {Fred, Jim}
UnbindMsgs ==
    {Message(Fred, "data", 0, 0, 0), Request(Fred, "data", 0, 0),
     Request(Jim, "data", 0, 0)}

InitUnbind ==
    /\ ksocks = [k \in KsockIds |-> "open"]
    /\ bindings = SetToBag({Binding(name, 2, replier) :
                               name \in UnbindNames, replier \in BOOLEAN})
    /\ queue = [k \in KsockIds |-> <<>>]
    /\ max_messages = [k \in KsockIds |-> 2 * MaxSends]
    /\ last_msg_id = 0
    /\ outstanding = <<>>
    /\ blocked = [k \in KsockIds |-> NoMsg]
    /\ NoPython
    /\ ret = Ret("OK", 0)

NextUnbind ==
    \/ \E name \in UnbindNames, replier \in BOOLEAN : unbind(2, name, replier)
    \/ \E k \in Senders, m \in UnbindMsgs : send(k, m)
    \/ \E o \in CanReplyTo(2) : send(2, reply_to(RequestGiven(o), "", 0).value[1])
    \/ \E k \in KsockIds : read_next_msg(k)
    \/ close(2)

SpecUnbind == InitUnbind /\ [][NextUnbind]_vars

(***************************************************************************)
(* Ksock 2 listens for $.Fred and is the replier for $.Jim, Ksock 3        *)
(* listens for $.Fred; Ksock 1 sends messages $.Fred and requests $.Jim,   *)
(* urgent and not, and the Ksocks read.                                    *)
(***************************************************************************)
UrgentMsgs ==
    {Message(Fred, "data", 0, 0, 0), Message(Fred, "data", 0, 0, URGENT),
     Request(Jim, "data", 0, 0), Request(Jim, "data", 0, URGENT)}

InitUrgent ==
    /\ ksocks = [k \in KsockIds |-> "open"]
    /\ bindings = SetToBag({Binding(Fred, 2, FALSE), Binding(Jim, 2, TRUE),
                            Binding(Fred, 3, FALSE)})
    /\ queue = [k \in KsockIds |-> <<>>]
    /\ max_messages \in {f \in [KsockIds -> QueueSizes \cup {MaxSends}] :
                            f[1] = MaxSends /\ f[2] = MaxSends}
    /\ last_msg_id = 0
    /\ outstanding = <<>>
    /\ blocked = [k \in KsockIds |-> NoMsg]
    /\ NoPython
    /\ ret = Ret("OK", 0)

NextUrgent ==
    \/ \E m \in UrgentMsgs : send(1, m)
    \/ \E k \in KsockIds : read_next_msg(k)

SpecUrgent == InitUrgent /\ [][NextUrgent]_vars

(***************************************************************************)
(* Ksocks 2 and 3 bind as listeners to $.Fred, $.Fred.Jim, $.Fred.* and    *)
(* $.Fred.%, once or more often, or as replier to $.Fred.*; Ksock 1 sends  *)
(* messages with names inside and outside $.Fred, and requests, and the    *)
(* Ksocks read.                                                            *)
(***************************************************************************)
ListenPatterns == {Fred, FredJim, FredStar, FredPercent}
ListenNames == {Fred, FredJim, FredBob, FredJimBob, Jim, JimFred}
ListenMsgs ==
    {Message(name, "data", 0, 0, 0) : name \in ListenNames}
        \cup {Request(Fred, "data", 0, 0), Request(FredJimBob, "data", 0, 0)}

InitListen ==
    /\ ksocks = [k \in KsockIds |-> "open"]
    /\ bindings = NoBindings
    /\ queue = [k \in KsockIds |-> <<>>]
    /\ max_messages = [k \in KsockIds |-> MaxBindings]
    /\ last_msg_id = 0
    /\ outstanding = <<>>
    /\ blocked = [k \in KsockIds |-> NoMsg]
    /\ NoPython
    /\ ret = Ret("OK", 0)

NextListen ==
    \/ \E k \in Binders, name \in ListenPatterns : bind(k, name, FALSE)
    \/ \E k \in Binders : bind(k, FredStar, TRUE)
    \/ \E m \in ListenMsgs : send(1, m)
    \/ \E k \in KsockIds : read_next_msg(k)

SpecListen == InitListen /\ [][NextListen]_vars

(***************************************************************************)
(* Ksock 2 may be the replier for $.Fred.*, Ksock 3 for $.Fred.% and Ksock *)
(* 1 for $.Fred.Jim; they bind and unbind, Ksock 1 sends requests, and the *)
(* Ksocks read.                                                            *)
(***************************************************************************)
SpecificRepliers ==
    {Binding(FredStar, 2, TRUE), Binding(FredPercent, 3, TRUE),
     Binding(FredJim, 1, TRUE)}
SpecificMsgs ==
    {Request(FredJim, "data", 0, 0), Request(FredBob, "data", 0, 0),
     Request(FredJimBob, "data", 0, 0)}

InitSpecific ==
    /\ ksocks = [k \in KsockIds |-> "open"]
    /\ bindings \in {SetToBag(bs) : bs \in SUBSET SpecificRepliers}
    /\ queue = [k \in KsockIds |-> <<>>]
    /\ max_messages = [k \in KsockIds |-> MaxSends]
    /\ last_msg_id = 0
    /\ outstanding = <<>>
    /\ blocked = [k \in KsockIds |-> NoMsg]
    /\ NoPython
    /\ ret = Ret("OK", 0)

NextSpecific ==
    \/ \E b \in SpecificRepliers : bind(b.ksock, b.name, TRUE)
    \/ \E b \in SpecificRepliers : unbind(b.ksock, b.name, TRUE)
    \/ \E m \in SpecificMsgs : send(1, m)
    \/ \E k \in KsockIds : read_next_msg(k)

SpecSpecific == InitSpecific /\ [][NextSpecific]_vars

(***************************************************************************)
(* Ksocks 2 and 3 bind to $.Fred, as replier or as listener, and as        *)
(* listeners to $.Fred.* and $.Fred.%; Ksock 1 sends messages with         *)
(* wildcard names and messages and requests $.Fred with ALL_OR_WAIT,       *)
(* ALL_OR_FAIL, both or neither, and the Ksocks read.                      *)
(***************************************************************************)
BothFlags == ALL_OR_WAIT + ALL_OR_FAIL
FlagMsgs ==
    {Message(FredStar, "data", 0, 0, 0), Message(FredPercent, "data", 0, 0, 0),
     Message(Fred, "data", 0, 0, 0), Message(Fred, "data", 0, 0, BothFlags),
     Message(Fred, "data", 0, 0, ALL_OR_WAIT),
     Message(Fred, "data", 0, 0, ALL_OR_FAIL),
     Request(Fred, "data", 0, BothFlags), Request(Fred, "data", 0, ALL_OR_FAIL)}

NextFlags ==
    \/ \E k \in Binders, replier \in BOOLEAN : bind(k, Fred, replier)
    \/ \E k \in Binders, name \in {FredStar, FredPercent} :
          bind(k, name, FALSE)
    \/ \E m \in FlagMsgs : send(1, m)
    \/ wake(1)
    \/ \E k \in KsockIds : read_next_msg(k)

SpecFlags == InitOpen /\ [][NextFlags]_vars

(***************************************************************************)
(* Ksock 1 sends $.Fred, as a message or as a request, with ALL_OR_WAIT,   *)
(* and waits when not all it is for have room; Ksock 3 sends $.Fred        *)
(* without flags meanwhile; Ksocks 2 and 3 bind to $.Fred and read.        *)
(***************************************************************************)
WaitMsgs ==
    {Message(Fred, "data", 0, 0, ALL_OR_WAIT),
     Request(Fred, "data", 0, ALL_OR_WAIT)}

NextWait ==
    \/ \E k \in Binders, replier \in BOOLEAN : bind(k, Fred, replier)
    \/ \E m \in WaitMsgs : send(1, m)
    \/ send(3, Message(Fred, "data", 0, 0, 0))
    \/ wake(1)
    \/ \E k \in KsockIds : read_next_msg(k)

SpecWait == InitOpen /\ [][NextWait]_vars

(***************************************************************************)
(* The same, where Ksocks 2 and 3 only listen, Ksock 3 leaves the last     *)
(* message id to Ksock 1, every Ksock goes on reading while it has         *)
(* something to read, and a send that waits is woken when it can go on.    *)
(***************************************************************************)
WaitMsg == Message(Fred, "data", 0, 0, ALL_OR_WAIT)

NextWaitFair ==
    \/ \E k \in Binders : bind(k, Fred, FALSE)
    \/ send(1, WaitMsg)
    \/ last_msg_id + 1 < MaxSends /\ send(3, Message(Fred, "data", 0, 0, 0))
    \/ wake(1)
    \/ \E k \in KsockIds : read_next_msg(k)

SpecWaitFair ==
    /\ InitOpen
    /\ [][NextWaitFair]_vars
    /\ \A k \in KsockIds : WF_vars(read_next_msg(k))
    /\ WF_vars(wake(1))

(***************************************************************************)
(* Ksocks 2 and 3 bind to $.Fred, as replier or as listener, and unbind as *)
(* replier; Ksock 1 sends requests $.Fred that are for Ksock 2, for Ksock  *)
(* 3 or for whoever is the replier, and the Ksocks read.                   *)
(***************************************************************************)
StatefulMsgs == {Request(Fred, "data", to, 0) : to \in {0} \cup Binders}

NextStateful ==
    \/ \E k \in Binders, replier \in BOOLEAN : bind(k, Fred, replier)
    \/ \E k \in Binders : unbind(k, Fred, TRUE)
    \/ \E m \in StatefulMsgs : send(1, m)
    \/ \E k \in KsockIds : read_next_msg(k)

SpecStateful == InitOpen /\ [][NextStateful]_vars

(***************************************************************************)
(* messages.py: message ids.                                               *)
(***************************************************************************)
MessageId(network_id, serial_num) ==
    [network_id |-> network_id, serial_num |-> serial_num]

OrigFrom(network_id, local_id) ==
    [network_id |-> network_id, local_id |-> local_id]

\* the ids are compared by serial number first
MessageId__cmp__serial_first(self, other) ==
    IF self.serial_num = other.serial_num
    THEN IF self.network_id = other.network_id THEN 0
         ELSE IF self.network_id < other.network_id THEN -1
         ELSE 1
    ELSE IF self.serial_num < other.serial_num THEN -1
    ELSE 1

MessageId__cmp__(self, other) ==
    IF self.network_id = other.network_id
    THEN IF self.serial_num = other.serial_num THEN 0
         ELSE IF self.serial_num < other.serial_num THEN -1
         ELSE 1
    ELSE IF self.network_id < other.network_id THEN -1
    ELSE 1

OrigFrom__cmp__(self, other) ==
    IF self.network_id = other.network_id
    THEN IF self.local_id = other.local_id THEN 0
         ELSE IF self.local_id < other.local_id THEN -1
         ELSE 1
    ELSE IF self.network_id < other.network_id THEN -1
    ELSE 1

(***************************************************************************)
(* messages.py: bytes.  A string is the sequence of its bytes, 0 .. 255;   *)
(* a c_uint32 is four bytes, the least significant first.                  *)
(***************************************************************************)
START_GUARD == 1937072715
END_GUARD == 1264743795

Zeros(n) == [i \in 1 .. n |-> 0]

\* the bytes of a c_uint32 in a structure
uint32_bytes(v) ==
    <<v % 256, (v \div 256) % 256, (v \div 65536) % 256,
      (v \div 16777216) % 256>>

\* the c_uint32 at offset `at` (from 0) of the bytes b
uint32_at(b, at) ==
    b[at + 1] + 256 * b[at + 2] + 65536 * b[at + 3] + 16777216 * b[at + 4]

\* b[from:to], Python's slice, for 0 <= from
Slice(b, from, to) ==
    IF to > Len(b) THEN SubSeq(b, from + 1, Len(b))
    ELSE SubSeq(b, from + 1, to)

\* the value of a c_char_p: the bytes before the first 0
RECURSIVE c_char_p(_)
c_char_p(b) ==
    IF b = <<>> \/ Head(b) = 0 THEN <<>>
    ELSE <<Head(b)>> \o c_char_p(Tail(b))

\* the bytes b with zeros after them up to the next multiple of 4 bytes
PadTo4(b) == b \o Zeros((4 - (Len(b) % 4)) % 4)

\* the least multiple of `to` that is at least n
AlignUp(n, to) == to * ((n + to - 1) \div to)

(***************************************************************************)
(* messages.py: _MessageHeaderStruct, the "pointy" message, and the        *)
(* "entire" message: the header with the name, the data and a second end   *)
(* guard after it.                                                         *)
(***************************************************************************)
\* the offset of the `name` pointer: the eleven 4-byte words before it,
\* and then the pointer's alignment
OffsetOfName == AlignUp(60, sizeof_pointer)

MSG_HEADER_LEN ==
    AlignUp(OffsetOfName + 2 * sizeof_pointer + 4, sizeof_pointer)

\* four bytes too few are allowed for the name's terminating 0
calc_padded_name_len_no_terminator(name_len) == 4 * ((name_len + 3) \div 4)

calc_padded_name_len(name_len) == 4 * ((name_len + 1 + 3) \div 4)

calc_padded_data_len(data_len) == 4 * ((data_len + 3) \div 4)

calc_entire_message_len(name_len, data_len) ==
    MSG_HEADER_LEN + calc_padded_name_len(name_len)
        + calc_padded_data_len(data_len) + 4

\* `name` and `data` are what the two pointers point at, or None
_MessageHeaderStruct(start_guard, id, in_reply_to, to, from_, orig_from, final_to, extra, flags, name_len, data_len, name, data, end_guard) ==
    [is_pointy |-> TRUE, start_guard |-> start_guard, id |-> id,
     in_reply_to |-> in_reply_to, to |-> to, from_ |-> from_,
     orig_from |-> orig_from, final_to |-> final_to, extra |-> extra,
     flags |-> flags, name_len |-> name_len, data_len |-> data_len,
     name |-> name, data |-> data, end_guard |-> end_guard]

\* `padding` is what follows rest_end_guard in the C structure, if anything
localEntireMessageStruct(header, rest_name, rest_data, rest_end_guard, padding) ==
    [is_pointy |-> FALSE, header |-> header, rest_name |-> rest_name,
     rest_data |-> rest_data, rest_end_guard |-> rest_end_guard,
     padding |-> padding]

\* the fields of either structure
HeaderOf(struct) == IF struct.is_pointy THEN struct ELSE struct.header

StructName(struct) ==
    IF struct.is_pointy
    THEN IF struct.name = None THEN None ELSE Some(c_char_p(struct.name[1]))
    ELSE Some(Slice(struct.rest_name, 0, struct.header.name_len))

StructData(struct) ==
    IF struct.is_pointy THEN struct.data
    ELSE IF struct.header.data_len # 0
    THEN Some(Slice(struct.rest_data, 0, struct.header.data_len))
    ELSE None

c_data_as_string(data, data_len) == [ii \in 1 .. data_len |-> data[1][ii]]

\* the flags are compared as well as the Ksock the message is for
_equivalent_message_struct_flags(this, that) ==
    LET a == HeaderOf(this)
        b == HeaderOf(that)
    IN IF \/ a.to # b.to
          \/ a.flags # b.flags
          \/ a.name_len # b.name_len
          \/ a.data_len # b.data_len
          \/ StructName(this) # StructName(that)
       THEN FALSE
       ELSE IF a.data_len # 0
       THEN c_data_as_string(StructData(this), a.data_len)
                = c_data_as_string(StructData(that), b.data_len)
       ELSE TRUE

_same_message_struct(this, that) ==
    LET a == HeaderOf(this)
        b == HeaderOf(that)
    IN IF \/ MessageId__cmp__(a.id, b.id) # 0
          \/ MessageId__cmp__(a.in_reply_to, b.in_reply_to) # 0
          \/ a.to # b.to
          \/ a.from_ # b.from_
          \/ OrigFrom__cmp__(a.orig_from, b.orig_from) # 0
          \/ OrigFrom__cmp__(a.final_to, b.final_to) # 0
          \/ a.flags # b.flags
          \/ a.name_len # b.name_len
          \/ a.data_len # b.data_len
          \/ StructName(this) # StructName(that)
       THEN FALSE
       ELSE IF a.data_len # 0
       THEN c_data_as_string(StructData(this), a.data_len)
                = c_data_as_string(StructData(that), b.data_len)
       ELSE TRUE

_equivalent_message_struct(this, that) ==
    LET a == HeaderOf(this)
        b == HeaderOf(that)
    IN IF \/ a.to # b.to
          \/ a.name_len # b.name_len
          \/ a.data_len # b.data_len
          \/ StructName(this) # StructName(that)
       THEN FALSE
       ELSE IF a.data_len # 0
       THEN c_data_as_string(StructData(this), a.data_len)
                = c_data_as_string(StructData(that), b.data_len)
       ELSE TRUE

\* the bytes of a pointer: all that is used of it is that None is 0
PointerBytes(pointer) == Zeros(sizeof_pointer)

\* the bytes of the C structure
_struct_to_bytes(struct) ==
    LET h == HeaderOf(struct)
        words ==
            uint32_bytes(h.start_guard)
                \o uint32_bytes(h.id.network_id)
                \o uint32_bytes(h.id.serial_num)
                \o uint32_bytes(h.in_reply_to.network_id)
                \o uint32_bytes(h.in_reply_to.serial_num)
                \o uint32_bytes(h.to)
                \o uint32_bytes(h.from_)
                \o uint32_bytes(h.orig_from.network_id)
                \o uint32_bytes(h.orig_from.local_id)
                \o uint32_bytes(h.final_to.network_id)
                \o uint32_bytes(h.final_to.local_id)
                \o uint32_bytes(h.extra)
                \o uint32_bytes(h.flags)
                \o uint32_bytes(h.name_len)
                \o uint32_bytes(h.data_len)
        header ==
            words \o Zeros(OffsetOfName - 60)
                \o PointerBytes(h.name) \o PointerBytes(h.data)
                \o uint32_bytes(h.end_guard)
                \o Zeros(MSG_HEADER_LEN - (OffsetOfName + 2 * sizeof_pointer
                                               + 4))
    IN IF struct.is_pointy THEN header
       ELSE header \o struct.rest_name \o struct.rest_data
                \o uint32_bytes(struct.rest_end_guard) \o struct.padding

\* the size of the entire message structure for these padded lengths
SizeofEntire(padded_name_len, padded_data_len) ==
    AlignUp(MSG_HEADER_LEN + padded_name_len + padded_data_len + 4,
            sizeof_pointer)

\* the header that the first MSG_HEADER_LEN bytes of `data` are
HeaderFromBytes(data) ==
    _MessageHeaderStruct(
        uint32_at(data, 0),
        MessageId(uint32_at(data, 4), uint32_at(data, 8)),
        MessageId(uint32_at(data, 12), uint32_at(data, 16)),
        uint32_at(data, 20), uint32_at(data, 24),
        OrigFrom(uint32_at(data, 28), uint32_at(data, 32)),
        OrigFrom(uint32_at(data, 36), uint32_at(data, 40)),
        uint32_at(data, 44), uint32_at(data, 48), uint32_at(data, 52),
        uint32_at(data, 56), None, None,
        uint32_at(data, OffsetOfName + 2 * sizeof_pointer))

\* memmove copies the size of the structure from `data`, however long
\* `data` is: what it reads after the end of `data` is whatever is there,
\* here `beyond` in every byte
_struct_from_bytes(padded_name_len, padded_data_len, data, beyond) ==
    LET size == SizeofEntire(padded_name_len, padded_data_len)
        image == IF Len(data) >= size THEN SubSeq(data, 1, size)
                 ELSE data \o [i \in 1 .. size - Len(data) |-> beyond]
        name_offset == MSG_HEADER_LEN
        data_offset == name_offset + padded_name_len
        guard_offset == data_offset + padded_data_len
    IN localEntireMessageStruct(
           HeaderFromBytes(image),
           Slice(image, name_offset, data_offset),
           Slice(image, data_offset, guard_offset),
           uint32_at(image, guard_offset),
           Slice(image, guard_offset + 4, size))

message_from_parts(id, in_reply_to, to, from_, orig_from, final_to, flags, name, data) ==
    LET name_len == Len(name)
        has_data == data # None /\ data # Some(<<>>)
        data_len == IF has_data THEN Len(data[1]) ELSE 0
    IN _MessageHeaderStruct(
           START_GUARD, id, in_reply_to, to, from_, orig_from, final_to, 0,
           flags, name_len, data_len,
           Some(PadTo4(name \o <<0>>)),
           IF has_data THEN Some(PadTo4(data[1])) ELSE None,
           END_GUARD)

_entire_message_from_parts(id, in_reply_to, to, from_, orig_from, final_to, flags, name, data) ==
    LET the_data == IF data = None THEN <<>> ELSE data[1]
        padded_name == PadTo4(name \o <<0>>)
        padded_data == PadTo4(the_data)
        header ==
            _MessageHeaderStruct(
                START_GUARD,
                IF id = None THEN MessageId(0, 0) ELSE id[1],
                IF in_reply_to = None THEN MessageId(0, 0)
                ELSE in_reply_to[1],
                to, from_,
                IF orig_from = None THEN OrigFrom(0, 0) ELSE orig_from[1],
                IF final_to = None THEN OrigFrom(0, 0) ELSE final_to[1],
                0, flags, Len(name), Len(the_data), None, None, END_GUARD)
    IN localEntireMessageStruct(
           header, padded_name, padded_data, END_GUARD,
           Zeros(SizeofEntire(Len(padded_name), Len(padded_data))
                     - (MSG_HEADER_LEN + Len(padded_name)
                            + Len(padded_data) + 4)))

_entire_message_from_bytes(data, beyond) ==
    IF Len(data) < MSG_HEADER_LEN THEN Raised("ValueError")
    ELSE IF uint32_at(data, 0) # START_GUARD THEN Raised("ValueError")
    ELSE LET h == HeaderFromBytes(data) IN
         Returned(_struct_from_bytes(calc_padded_name_len(h.name_len),
                                     calc_padded_data_len(h.data_len),
                                     data, beyond))

(***************************************************************************)
(* messages.py: class Message.  A Message is its class and its `msg`, the  *)
(* structure.                                                              *)
(***************************************************************************)
Object(class, msg) == [class |-> class, msg |-> msg]

\* the properties of a Message
Message_id(self) ==
    LET h == HeaderOf(self.msg) IN
    IF h.id.network_id = 0 /\ h.id.serial_num = 0 THEN None ELSE Some(h.id)

Message_in_reply_to(self) ==
    LET h == HeaderOf(self.msg) IN
    IF h.in_reply_to.network_id = 0 /\ h.in_reply_to.serial_num = 0
    THEN None ELSE Some(h.in_reply_to)

Message_orig_from(self) ==
    LET h == HeaderOf(self.msg) IN
    IF h.orig_from.network_id = 0 /\ h.orig_from.local_id = 0
    THEN None ELSE Some(h.orig_from)

Message_final_to(self) ==
    LET h == HeaderOf(self.msg) IN
    IF h.final_to.network_id = 0 /\ h.final_to.local_id = 0
    THEN None ELSE Some(h.final_to)

Message_name(self) ==
    Slice(StructName(self.msg)[1], 0, HeaderOf(self.msg).name_len)

Message_data(self) ==
    IF HeaderOf(self.msg).data_len = 0 THEN None
    ELSE Some(c_data_as_string(StructData(self.msg),
                               HeaderOf(self.msg).data_len))

\* (id, in_reply_to, to, from_, orig_from, final_to, flags, name, data)
extract(self) ==
    [id |-> Message_id(self), in_reply_to |-> Message_in_reply_to(self),
     to |-> HeaderOf(self.msg).to, from_ |-> HeaderOf(self.msg).from_,
     orig_from |-> Message_orig_from(self),
     final_to |-> Message_final_to(self),
     flags |-> HeaderOf(self.msg).flags, name |-> Message_name(self),
     data |-> Message_data(self)]

\* Message._from_data: the new `msg`
_from_data(name, data, to, from_, orig_from, final_to, in_reply_to, flags, id) ==
    message_from_parts(
        IF id # None THEN id[1] ELSE MessageId(0, 0),
        IF in_reply_to # None THEN in_reply_to[1] ELSE MessageId(0, 0),
        to, from_,
        IF orig_from # None THEN orig_from[1] ELSE OrigFrom(0, 0),
        IF final_to # None THEN final_to[1] ELSE OrigFrom(0, 0),
        flags, name, data)

\* "$."
DollarDot == <<36, 46>>

\* Message.__init__ and Message._check, for the class `class`
Message__init__(class, name, data, to, from_, orig_from, final_to, in_reply_to, flags, id) ==
    IF Slice(name, 0, 2) # DollarDot THEN Raised("ValueError")
    ELSE IF Len(name) < 3 THEN Raised("ValueError")
    ELSE Returned(Object(class,
                         _from_data(name, data, to, from_, orig_from,
                                    final_to, in_reply_to, flags, id)))

Message__eq__(self, other) == _same_message_struct(self.msg, other.msg)

equivalent(self, other) == _equivalent_message_struct(self.msg, other.msg)

total_length(self) ==
    calc_entire_message_len(HeaderOf(self.msg).name_len,
                            HeaderOf(self.msg).data_len)

\* all the bytes of the structure are returned
to_bytes_whole(self) ==
    LET x == extract(self) IN
    _struct_to_bytes(
        _entire_message_from_parts(x.id, x.in_reply_to, x.to, x.from_,
                                   x.orig_from, x.final_to, x.flags, x.name,
                                   x.data))

to_bytes(self) ==
    LET x == extract(self)
        tmp == _entire_message_from_parts(x.id, x.in_reply_to, x.to, x.from_,
                                          x.orig_from, x.final_to, x.flags,
                                          x.name, x.data)
        b == _struct_to_bytes(tmp)
        name_len == Len(x.name)
        data_len == IF x.data # None THEN Len(x.data[1]) ELSE 0
        actual_len == calc_entire_message_len(name_len, data_len)
    IN Slice(b, 0, actual_len)

from_bytes(class, arg, beyond) ==
    LET made == _entire_message_from_bytes(arg, beyond) IN
    IF made.error # "" THEN made
    ELSE Returned(Object(class, made.value[1]))

\* the arguments of from_message() and from_sequence() that were not given
NoArgs ==
    [data |-> None, to |-> None, from_ |-> None, orig_from |-> None,
     final_to |-> None, in_reply_to |-> None, flags |-> None, id |-> None]

\* Message._merge_args: the new `msg`, from what extract() gave and the
\* arguments `this` that are not None
_merge_args(extracted, this) ==
    _from_data(
        extracted.name,
        IF this.data # None THEN this.data ELSE extracted.data,
        IF this.to # None THEN this.to[1] ELSE extracted.to,
        IF this.from_ # None THEN this.from_[1] ELSE extracted.from_,
        IF this.orig_from # None THEN this.orig_from
        ELSE extracted.orig_from,
        IF this.final_to # None THEN this.final_to ELSE extracted.final_to,
        IF this.in_reply_to # None THEN this.in_reply_to
        ELSE extracted.in_reply_to,
        IF this.flags # None THEN this.flags[1] ELSE extracted.flags,
        IF this.id # None THEN this.id ELSE extracted.id)

\* Message.from_message(msg, ...)
from_message(msg, this) == Object("Message", _merge_args(extract(msg), this))

\* Message.from_sequence(seq, ...)
from_sequence(seq, this) == Object("Message", _merge_args(seq, this))

(***************************************************************************)
(* messages.py: class Announcement.                                        *)
(***************************************************************************)
\* nothing is cleared in the new message
ClearReplyFields_nothing(msg) == msg

\* self.msg.in_reply_to = MessageId(0, 0); self.msg.orig_from =
\* OrigFrom(0,0); self.msg.final_to = OrigFrom(0,0)
ClearReplyFields(msg) ==
    LET cleared(h) == [h EXCEPT !.in_reply_to = MessageId(0, 0),
                                !.orig_from = OrigFrom(0, 0),
                                !.final_to = OrigFrom(0, 0)]
    IN IF msg.is_pointy THEN cleared(msg)
       ELSE [msg EXCEPT !.header = cleared(msg.header)]

Announcement__init__(name, data, to, from_, flags, id) ==
    LET made == Message__init__("Announcement", name, data, to, from_, None,
                                None, None, flags, id)
    IN IF made.error # "" THEN made
       ELSE Returned(Object("Announcement",
                            ClearReplyFields(made.value[1].msg)))

\* the arguments an Announcement passes on: data, to, from_, flags and id
AnnouncementArgs(this) ==
    [this EXCEPT !.orig_from = None, !.final_to = None, !.in_reply_to = None]

Announcement_from_message(msg, this) ==
    Object("Announcement",
           ClearReplyFields(_merge_args(extract(msg), AnnouncementArgs(this))))

Announcement_from_sequence(seq, this) ==
    Object("Announcement",
           ClearReplyFields(_merge_args(seq, AnnouncementArgs(this))))

Announcement_from_bytes(arg, beyond) ==
    LET made == _entire_message_from_bytes(arg, beyond) IN
    IF made.error # "" THEN made
    ELSE Returned(Object("Announcement", ClearReplyFields(made.value[1])))

(***************************************************************************)
(* A message is made, turned into bytes with to_bytes() and turned back    *)
(* into a message with Message.from_bytes(), on a build with 4-byte or     *)
(* with 8-byte pointers.                                                   *)
(***************************************************************************)
PointerSizes == {4, 8}

\* "$.B", "$.Bo", "$.Jim", "$.Fred"
WireNames ==
    {<<36, 46, 66>>, <<36, 46, 66, 111>>, <<36, 46, 74, 105, 109>>,
     <<36, 46, 70, 114, 101, 100>>}

\* None, "", "1", "1234", "1\0345"
WireData ==
    {None, Some(<<>>), Some(<<49>>), Some(<<49, 50, 51, 52>>),
     Some(<<49, 0, 51, 52, 53>>)}

\* the other arguments of Message(): none given, each given alone, all given
NoFields ==
    [to |-> 0, from_ |-> 0, orig_from |-> None, final_to |-> None,
     in_reply_to |-> None, flags |-> 0, id |-> None]

WireFields ==
    {NoFields,
     [NoFields EXCEPT !.to = 258],
     [NoFields EXCEPT !.from_ = 1],
     [NoFields EXCEPT !.orig_from = Some(OrigFrom(1, 2))],
     [NoFields EXCEPT !.final_to = Some(OrigFrom(2, 1))],
     [NoFields EXCEPT !.in_reply_to = Some(MessageId(0, 3))],
     [NoFields EXCEPT !.flags = 259],
     [NoFields EXCEPT !.id = Some(MessageId(1, 258))],
     [to |-> 258, from_ |-> 1, orig_from |-> Some(OrigFrom(1, 2)),
      final_to |-> Some(OrigFrom(2, 1)),
      in_reply_to |-> Some(MessageId(0, 3)), flags |-> 259,
      id |-> Some(MessageId(1, 258))]}

\* what may lie in memory after the end of a string
Beyond == {0, 90}

\* Message(name, data, to, ...)
NewMessage(class, name, data, f) ==
    Message__init__(class, name, data, f.to, f.from_, f.orig_from,
                    f.final_to, f.in_reply_to, f.flags, f.id).value[1]

InitWire ==
    /\ ksocks = [k \in KsockIds |-> "unopened"]
    /\ bindings = NoBindings
    /\ queue = [k \in KsockIds |-> <<>>]
    /\ max_messages = [k \in KsockIds |-> 1]
    /\ last_msg_id = 0
    /\ outstanding = <<>>
    /\ blocked = [k \in KsockIds |-> NoMsg]
    /\ ret = Ret("OK", 0)
    /\ sizeof_pointer \in PointerSizes
    /\ msg1 \in {NewMessage("Message", name, data, f) :
                    name \in WireNames, data \in WireData, f \in WireFields}
    /\ msg2 = None /\ msg3 = None
    /\ msg_as_string = None
    /\ result = NoResult

\* msg_as_string = msg1.to_bytes()
WireToBytes ==
    /\ msg_as_string = None
    /\ msg_as_string' = to_bytes(msg1)
    /\ UNCHANGED <<kvars, sizeof_pointer, msg1, msg2, msg3, result>>

\* Message.from_bytes(msg_as_string)
WireFromBytes(beyond) ==
    /\ msg_as_string # None
    /\ result = NoResult
    /\ result' = from_bytes("Message", msg_as_string, beyond)
    /\ UNCHANGED <<kvars, sizeof_pointer, msg1, msg2, msg3, msg_as_string>>

\* Message.from_bytes(msg_as_string[:8])
WireFromTooFew ==
    /\ msg_as_string # None
    /\ result = NoResult
    /\ result' = from_bytes("Message", Slice(msg_as_string, 0, 8), 0)
    /\ UNCHANGED <<kvars, sizeof_pointer, msg1, msg2, msg3, msg_as_string>>

NextWire ==
    \/ WireToBytes
    \/ \E beyond \in Beyond : WireFromBytes(beyond)
    \/ WireFromTooFew

SpecWire == InitWire /\ [][NextWire]_vars

(***************************************************************************)
(* Three message ids a, b and c are made and compared with each other, as  *)
(* Python's <, == and > compare them: by the sign of __cmp__.              *)
(***************************************************************************)
MaxIdPart == 2

IdParts == 0 .. MaxIdPart

MessageIds ==
    {MessageId(network_id, serial_num) :
        network_id \in IdParts, serial_num \in IdParts}

InitId ==
    /\ ksocks = [k \in KsockIds |-> "unopened"]
    /\ bindings = NoBindings
    /\ queue = [k \in KsockIds |-> <<>>]
    /\ max_messages = [k \in KsockIds |-> 1]
    /\ last_msg_id = 0
    /\ outstanding = <<>>
    /\ blocked = [k \in KsockIds |-> NoMsg]
    /\ ret = Ret("OK", 0)
    /\ sizeof_pointer = 8
    /\ msg1 \in {Some(a) : a \in MessageIds}
    /\ msg2 \in {Some(b) : b \in MessageIds}
    /\ msg3 \in {Some(c) : c \in MessageIds}
    /\ msg_as_string = None
    /\ result = NoResult

\* cmp(a, b), cmp(b, a), cmp(b, c), cmp(a, c)
IdCompare ==
    /\ result = NoResult
    /\ result' = Returned([ab |-> MessageId__cmp__(msg1[1], msg2[1]),
                           ba |-> MessageId__cmp__(msg2[1], msg1[1]),
                           bc |-> MessageId__cmp__(msg2[1], msg3[1]),
                           ac |-> MessageId__cmp__(msg1[1], msg3[1]),
                           aa |-> MessageId__cmp__(msg1[1], msg1[1])])
    /\ UNCHANGED <<kvars, sizeof_pointer, msg1, msg2, msg3, msg_as_string>>

\* the ids are dropped and others may be made
IdForget ==
    /\ result # NoResult
    /\ result' = NoResult
    /\ UNCHANGED <<kvars, sizeof_pointer, msg1, msg2, msg3, msg_as_string>>

NextId ==
    \/ IdCompare
    \/ IdForget

SpecId == InitId /\ [][NextId]_vars

(***************************************************************************)
(* Three messages a, b and c are made; each may be turned into bytes and   *)
(* read back, which makes it an "entire" message; and they are compared    *)
(* with equivalent().                                                      *)
(***************************************************************************)
\* "$.Fred", "$.Jim"
EquivNames == {<<36, 46, 70, 114, 101, 100>>, <<36, 46, 74, 105, 109>>}

\* None, "1", "2", "1\0"
EquivData == {None, Some(<<49>>), Some(<<50>>), Some(<<49, 0>>)}

\* the fields equivalent() does not look at: none given, all given
EquivFields ==
    {NoFields,
     [NoFields EXCEPT !.from_ = 1, !.orig_from = Some(OrigFrom(1, 2)),
                      !.final_to = Some(OrigFrom(2, 1)),
                      !.in_reply_to = Some(MessageId(0, 3)), !.flags = 3,
                      !.id = Some(MessageId(1, 2))]}

EquivMessages ==
    {NewMessage("Message", name, data, [f EXCEPT !.to = to]) :
        name \in EquivNames, data \in EquivData, to \in {0, 1},
        f \in EquivFields}

InitEquiv ==
    /\ ksocks = [k \in KsockIds |-> "unopened"]
    /\ bindings = NoBindings
    /\ queue = [k \in KsockIds |-> <<>>]
    /\ max_messages = [k \in KsockIds |-> 1]
    /\ last_msg_id = 0
    /\ outstanding = <<>>
    /\ blocked = [k \in KsockIds |-> NoMsg]
    /\ ret = Ret("OK", 0)
    /\ sizeof_pointer = 8
    /\ msg1 \in EquivMessages
    /\ msg2 \in EquivMessages
    /\ msg3 \in {c \in EquivMessages :
                    /\ Message_name(c) = <<36, 46, 70, 114, 101, 100>>
                    /\ Message_id(c) = None}
    /\ msg_as_string = None
    /\ result = NoResult

\* the message read back from its bytes
Reread(msg) == from_bytes("Message", to_bytes(msg), 0).value[1]

\* msg1 = Message.from_bytes(msg1.to_bytes())
EquivReread1 ==
    /\ msg1.msg.is_pointy
    /\ msg1' = Reread(msg1)
    /\ result' = NoResult
    /\ UNCHANGED <<kvars, sizeof_pointer, msg2, msg3, msg_as_string>>

\* msg2 = Message.from_bytes(msg2.to_bytes())
EquivReread2 ==
    /\ msg2.msg.is_pointy
    /\ msg2' = Reread(msg2)
    /\ result' = NoResult
    /\ UNCHANGED <<kvars, sizeof_pointer, msg1, msg3, msg_as_string>>

\* msg3 = Message.from_bytes(msg3.to_bytes())
EquivReread3 ==
    /\ msg3.msg.is_pointy
    /\ msg3' = Reread(msg3)
    /\ result' = NoResult
    /\ UNCHANGED <<kvars, sizeof_pointer, msg1, msg2, msg_as_string>>

\* a.equivalent(b) and the like, and the same of the messages made again
\* as pointy messages and as entire messages
EquivCompare ==
    /\ result = NoResult
    /\ result' =
           Returned(
               [ab |-> equivalent(msg1, msg2),
                ba |-> equivalent(msg2, msg1),
                bc |-> equivalent(msg2, msg3),
                ac |-> equivalent(msg1, msg3),
                aa |-> equivalent(msg1, msg1),
                pointy |-> equivalent(from_message(msg1, NoArgs),
                                      from_message(msg2, NoArgs)),
                entire |-> equivalent(Reread(msg1), Reread(msg2))])
    /\ UNCHANGED <<kvars, sizeof_pointer, msg1, msg2, msg3, msg_as_string>>

NextEquiv ==
    \/ EquivReread1
    \/ EquivReread2
    \/ EquivReread3
    \/ EquivCompare

SpecEquiv == InitEquiv /\ [][NextEquiv]_vars

(***************************************************************************)
(* An Announcement is made in each of the four ways: from its arguments,   *)
(* from another message, from what extract() gave of another message, and  *)
(* from the bytes of another message.                                      *)
(***************************************************************************)
\* the flags given to a constructor: not given, none, WANT_A_REPLY,
\* WANT_A_REPLY | WANT_YOU_TO_REPLY, URGENT
FlagsArgs ==
    {None, Some(0), Some(WANT_A_REPLY),
     Some(WANT_A_REPLY + WANT_YOU_TO_REPLY), Some(URGENT)}

\* the messages an Announcement is made from
AnnouncementSources ==
    {NewMessage("Message", <<36, 46, 70, 114, 101, 100>>, data,
                [NoFields EXCEPT !.flags = flags, !.in_reply_to = in_reply_to,
                                 !.orig_from = from, !.final_to = from]) :
        data \in {None, Some(<<49, 50, 51, 52>>)},
        flags \in {0, WANT_A_REPLY, WANT_A_REPLY + WANT_YOU_TO_REPLY, URGENT},
        in_reply_to \in {None, Some(MessageId(0, 3))},
        from \in {None, Some(OrigFrom(1, 2))}}

InitAnnouncement ==
    /\ ksocks = [k \in KsockIds |-> "unopened"]
    /\ bindings = NoBindings
    /\ queue = [k \in KsockIds |-> <<>>]
    /\ max_messages = [k \in KsockIds |-> 1]
    /\ last_msg_id = 0
    /\ outstanding = <<>>
    /\ blocked = [k \in KsockIds |-> NoMsg]
    /\ ret = Ret("OK", 0)
    /\ sizeof_pointer \in PointerSizes
    /\ msg1 \in AnnouncementSources
    /\ msg2 = None /\ msg3 = None
    /\ msg_as_string = to_bytes(msg1)
    /\ result = NoResult

\* what a constructor was called with, and what it made
Made(how, flags, made) ==
    Returned([how |-> how, flags |-> flags, made |-> made])

\* Announcement(msg1.name, data=msg1.data, flags=flags)
AnnouncementNew(flags) ==
    /\ result' =
           Made("__init__", flags,
                Announcement__init__(
                    Message_name(msg1), Message_data(msg1), 0, 0,
                    IF flags = None THEN 0 ELSE flags[1], None).value[1])
    /\ UNCHANGED <<kvars, sizeof_pointer, msg1, msg2, msg3, msg_as_string>>

\* Announcement.from_message(msg1, flags=flags)
AnnouncementFromMessage(flags) ==
    /\ result' =
           Made("from_message", flags,
                Announcement_from_message(msg1,
                                          [NoArgs EXCEPT !.flags = flags]))
    /\ UNCHANGED <<kvars, sizeof_pointer, msg1, msg2, msg3, msg_as_string>>

\* Announcement.from_sequence(msg1.extract(), flags=flags)
AnnouncementFromSequence(flags) ==
    /\ result' =
           Made("from_sequence", flags,
                Announcement_from_sequence(extract(msg1),
                                           [NoArgs EXCEPT !.flags = flags]))
    /\ UNCHANGED <<kvars, sizeof_pointer, msg1, msg2, msg3, msg_as_string>>

\* Announcement.from_bytes(msg1.to_bytes())
AnnouncementFromBytes(beyond) ==
    /\ result' =
           Made("from_bytes", None,
                Announcement_from_bytes(msg_as_string, beyond).value[1])
    /\ UNCHANGED <<kvars, sizeof_pointer, msg1, msg2, msg3, msg_as_string>>

NextAnnouncement ==
    \/ \E flags \in FlagsArgs : AnnouncementNew(flags)
    \/ \E flags \in FlagsArgs : AnnouncementFromMessage(flags)
    \/ \E flags \in FlagsArgs : AnnouncementFromSequence(flags)
    \/ \E beyond \in Beyond : AnnouncementFromBytes(beyond)

SpecAnnouncement == InitAnnouncement /\ [][NextAnnouncement]_vars

(***************************************************************************)
(* reply_to(original, data=data, flags=flags) is called on a message that  *)
(* has been read, or that was made by hand.                                *)
(***************************************************************************)
\* the messages replied to: with or without each of WANT_A_REPLY and
\* WANT_YOU_TO_REPLY, an id, a sender, data, and an in_reply_to of their own
Originals ==
    {[id |-> id, in_reply_to |-> in_reply_to, to |-> to, from |-> from,
      flags |-> flags, name |-> name, data |-> data] :
        id \in {0, 1, 2}, in_reply_to \in {0, 3}, to \in {0, 2},
        from \in {0, 1},
        flags \in {0, WANT_A_REPLY, WANT_YOU_TO_REPLY,
                   WANT_A_REPLY + WANT_YOU_TO_REPLY,
                   WANT_A_REPLY + WANT_YOU_TO_REPLY + URGENT},
        name \in {Fred, Jim}, data \in {"", "data"}}

InitReply ==
    /\ ksocks = [k \in KsockIds |-> "unopened"]
    /\ bindings = NoBindings
    /\ queue = [k \in KsockIds |-> <<>>]
    /\ max_messages = [k \in KsockIds |-> 1]
    /\ last_msg_id = 0
    /\ outstanding = <<>>
    /\ blocked = [k \in KsockIds |-> NoMsg]
    /\ ret = Ret("OK", 0)
    /\ sizeof_pointer = 8
    /\ msg1 \in {Some(original) : original \in Originals}
    /\ msg2 = None /\ msg3 = None
    /\ msg_as_string = None
    /\ result = NoResult

\* reply_to(msg1, data=data, flags=flags); msg2 is what it was called with
ReplyTo(data, flags) ==
    /\ result = NoResult
    /\ result' = reply_to(msg1[1], data, flags)
    /\ msg2' = Some([data |-> data, flags |-> flags])
    /\ UNCHANGED <<kvars, sizeof_pointer, msg1, msg3, msg_as_string>>

\* Reply(msg1.name, data=msg1.data, to=msg1.to, in_reply_to=msg1.in_reply_to)
ReplyNew ==
    /\ result = NoResult
    /\ result' = Reply(msg1[1].name, msg1[1].data, msg1[1].to,
                       msg1[1].in_reply_to, 0)
    /\ msg2' = None
    /\ msg3' = Some("Reply")
    /\ UNCHANGED <<kvars, sizeof_pointer, msg1, msg_as_string>>

NextReply ==
    \/ \E data \in {"", "reply"}, flags \in {0, ALL_OR_WAIT} :
           ReplyTo(data, flags)
    \/ ReplyNew

SpecReply == InitReply /\ [][NextReply]_vars

(***************************************************************************)
(* Ksock 1 listens for $.Fred and sends requests and urgent messages       *)
(* $.Fred; Ksock 2 is the replier, and Ksocks 2 and 3 bind and unbind as   *)
(* replier, reply to the requests they have read, and close; the queues    *)
(* hold one or two messages.                                               *)
(***************************************************************************)
OutcomeMsgs ==
    {Request(Fred, "data", 0, 0), Message(Fred, "data", 0, 0, URGENT)}

InitOutcome ==
    /\ ksocks = [k \in KsockIds |-> "open"]
    /\ bindings = SetToBag({Binding(Fred, 1, FALSE), Binding(Fred, 2, TRUE)})
    /\ queue = [k \in KsockIds |-> <<>>]
    /\ max_messages \in [KsockIds -> QueueSizes]
    /\ last_msg_id = 0
    /\ outstanding = <<>>
    /\ blocked = [k \in KsockIds |-> NoMsg]
    /\ NoPython
    /\ ret = Ret("OK", 0)

NextOutcome ==
    \/ \E m \in OutcomeMsgs : send(1, m)
    \/ \E k \in Binders : bind(k, Fred, TRUE)
    \/ \E k \in Binders : unbind(k, Fred, TRUE)
    \/ \E k \in Binders : close(k)
    \/ \E k \in Binders : \E o \in CanReplyTo(k) :
          send(k, reply_to(RequestGiven(o), "", 0).value[1])
    \/ \E k \in KsockIds : read_next_msg(k)

SpecOutcome == InitOutcome /\ [][NextOutcome]_vars

(***************************************************************************)
(* Ksocks 2 and 3 bind to $.Fred; Ksock 1 sends ALL_OR_WAIT messages and   *)
(* requests $.Fred, which may have to wait, and closes; Ksock 3 sends      *)
(* plain messages; the Ksocks read.                                        *)
(***************************************************************************)
NextCancel ==
    \/ \E k \in Binders, replier \in BOOLEAN : bind(k, Fred, replier)
    \/ \E m \in WaitMsgs : send(1, m)
    \/ send(3, Message(Fred, "data", 0, 0, 0))
    \/ wake(1)
    \/ close(1)
    \/ \E k \in KsockIds : read_next_msg(k)

SpecCancel == InitOpen /\ [][NextCancel]_vars

(***************************************************************************)
(* Properties.                                                             *)
(***************************************************************************)
\* the number of elements of the sequence s that satisfy Test
Count(s, Test(_)) == Cardinality({i \in 1 .. Len(s) : Test(s[i])})

\* the number of replier bindings to exactly this name
NumRepliers(name) ==
    BagCardinality([b \in RepliersBoundTo(name) |-> bindings[b]])

\* C1: there is never more than one replier binding for a binding name: a
\* bind as replier to a name that has a replier (this Ksock or another)
\* fails with EADDRINUSE and changes no binding, and a bind as replier to a
\* name that has none (never had, or lost it by unbind or close) succeeds
\* and adds the binding.
C1_OneReplierStep ==
    \A k \in KsockIds, name \in BindNames :
        bind(k, name, TRUE) =>
            IF RepliersBoundTo(name) # {}
            THEN ret'.errno = "EADDRINUSE" /\ bindings' = bindings
            ELSE /\ ret'.errno = "OK"
                 /\ RepliersBoundTo(name)' = {Binding(name, k, TRUE)}

C1_OneReplier ==
    /\ [](\A name \in BindNames : NumRepliers(name) <= 1)
    /\ [][C1_OneReplierStep]_vars

\* a second bind as replier has just been refused
C1_Witness ==
    /\ ret.errno = "EADDRINUSE"
    /\ RepliersBoundTo(Fred) # {}

\* the copies of message `id` in the queue q: all of them, those that ask
\* their reader for the reply, and those that do not
CopiesOf(q, id) == Count(q, LAMBDA x : x.id = id)
FlaggedCopiesOf(q, id) == Count(q, LAMBDA x : x.id = id /\ wants_us_to_reply(x))
PlainCopiesOf(q, id) == Count(q, LAMBDA x : x.id = id /\ ~wants_us_to_reply(x))
NumSynthetic(q) == Count(q, LAMBDA x : is_synthetic(x))

\* q is p with the sequence `more` added at its end
Extends(q, p, more) == q = p \o more

\* the part of q after its first n messages
After(q, n) == SubSeq(q, n + 1, Len(q))

\* x is the synthetic message `name` about `request_id`
IsStatus(x, name, request_id) ==
    /\ x.name = name
    /\ x.in_reply_to = request_id
    /\ is_synthetic(x)
    /\ x.data = ""

\* C2 as stated: every request that is sent successfully puts exactly one
\* copy with WANT_YOU_TO_REPLY on a queue, the replier's; the copies sent for
\* listener bindings do not have the flag; and a Ksock that is the replier
\* and a listener gets the copy with the flag and one without.
C2_OriginalStep ==
    \A k \in Senders, m \in Msgs :
        (is_request(m) /\ ret'.errno = "OK" /\ send(k, m)) =>
            LET id == ret'.id
                r == FindReplier(m.name).ksock
            IN /\ \A j \in KsockIds :
                      FlaggedCopiesOf(queue'[j], id) = IF j = r THEN 1 ELSE 0
               /\ \A j \in KsockIds :
                      PlainCopiesOf(queue'[j], id) > 0 =>
                          MatchingListeners(m.name, j) # {}
               /\ MatchingListeners(m.name, r) # {} =>
                      PlainCopiesOf(queue'[r], id) >= 1

C2_Original == [][C2_OriginalStep]_vars

\* C2, amended: every request that is sent while its replier has room puts
\* exactly one copy with WANT_YOU_TO_REPLY on a queue, the replier's; the
\* copies sent for listener bindings do not have the flag; and a Ksock that
\* is the replier and a listener, with room for two messages, gets the copy
\* with the flag and one without.
C2_ReplierCopyStep ==
    \A k \in Senders, m \in Msgs :
        (/\ is_request(m)
         /\ ret'.errno = "OK"
         /\ ~ReplierIsFull(m)
         /\ send(k, m)) =>
            LET id == ret'.id
                r == FindReplier(m.name).ksock
            IN /\ \A j \in KsockIds :
                      FlaggedCopiesOf(queue'[j], id) = IF j = r THEN 1 ELSE 0
               /\ \A j \in KsockIds :
                      PlainCopiesOf(queue'[j], id) > 0 =>
                          MatchingListeners(m.name, j) # {}
               /\ (MatchingListeners(m.name, r) # {} /\ RoomIn(queue, r) >= 2)
                      => PlainCopiesOf(queue'[r], id) >= 1

C2_ReplierCopy == [][C2_ReplierCopyStep]_vars

\* Ksock 3, replier and listener for $.Fred, holds both copies of a request
C2_Witness ==
    /\ Len(queue[3]) = 2
    /\ queue[3][1].id = queue[3][2].id
    /\ wants_us_to_reply(queue[3][1])
    /\ ~wants_us_to_reply(queue[3][2])
    /\ is_request(queue[3][2])

\* C3: with $.Fred.* bound as replier by x and $.Fred.Jim by y, the
\* replier's copy of a request $.Fred.Jim goes to y (if y has room) and to no
\* other queue, that of a request $.Fred.Bob to x and to no other; without
\* listeners that copy is the only one, also when x and y are one Ksock.
C3_ExactFirstStep ==
    \A m \in WildMsgs, x \in Binders, y \in Binders :
        (/\ BagIn(Binding(FredStar, x, TRUE), bindings)
         /\ BagIn(Binding(FredJim, y, TRUE), bindings)
         /\ send(1, m)) =>
            LET id == last_msg_id + 1
                target == IF m.name = FredJim THEN y ELSE x
                room == ~QueueIsFull(queue, target)
            IN /\ ret' = Ret("OK", id)
               /\ \A j \in KsockIds :
                      FlaggedCopiesOf(queue'[j], id) =
                          IF j = target /\ room THEN 1 ELSE 0
               /\ (\A j \in KsockIds : MatchingListeners(m.name, j) = {}) =>
                      \A j \in KsockIds :
                          CopiesOf(queue'[j], id) =
                              IF j = target /\ room THEN 1 ELSE 0

C3_ExactFirst == [][C3_ExactFirstStep]_vars

\* Ksock 2 is the replier for $.Fred.* and Ksock 3 for $.Fred.Jim; the
\* request $.Fred.Jim just sent is on the queue of 3 and not on that of 2
C3_Witness ==
    /\ BagIn(Binding(FredStar, 2, TRUE), bindings)
    /\ BagIn(Binding(FredJim, 3, TRUE), bindings)
    /\ ret.id > 0
    /\ \E i \in 1 .. Len(queue[3]) :
          /\ queue[3][i].id = ret.id
          /\ queue[3][i].name = FredJim
          /\ wants_us_to_reply(queue[3][i])
    /\ CopiesOf(queue[2], ret.id) = 0

\* C4: a request whose name no replier binding matches fails with
\* EADDRNOTAVAIL, and changes no queue (the listeners for the name get no
\* copy), no message id and no record of unanswered requests.
C4_NoReplierStep ==
    \A k \in Senders, m \in Msgs :
        (is_request(m) /\ MatchingRepliers(m.name) = {} /\ send(k, m)) =>
            /\ ret' = Ret("EADDRNOTAVAIL", 0)
            /\ UNCHANGED <<queue, outstanding, last_msg_id>>

C4_NoReplier == [][C4_NoReplierStep]_vars

\* a request has failed for want of a replier while a listener with room
\* was bound to its name
C4_Witness ==
    /\ ret.errno = "EADDRNOTAVAIL"
    /\ \E j \in KsockIds :
          MatchingListeners(Fred, j) # {} /\ ~QueueIsFull(queue, j)

\* the unanswered requests that s sent and r was to reply to, oldest first
Unanswered(r, s) ==
    SelectSeq(outstanding, LAMBDA o : o.replier = r /\ o.sender = s)

\* q is p followed by one synthetic message `name`, from r to s, for each of
\* the requests in `lost`, in the order the requests were sent, and no more
ToldOf(q, p, lost, name, r, s) ==
    /\ Len(q) = Len(p) + Len(lost)
    /\ SubSeq(q, 1, Len(p)) = p
    /\ \A i \in 1 .. Len(lost) :
          LET x == q[Len(p) + i]
          IN /\ IsStatus(x, name, lost[i].id)
             /\ x.to = s
             /\ x.from = r
    /\ \A i \in 1 .. Len(lost), j \in 1 .. Len(lost) :
          i < j => q[Len(p) + i].in_reply_to < q[Len(p) + j].in_reply_to

\* C5: when Ksock r closes, every other open Ksock s gets, at the end of its
\* queue, one $.KBUS.Replier.GoneAway for each unanswered request it sent
\* that r was to reply to (in_reply_to the request's id, SYNTHETIC, no data,
\* to s, from r), in the order the requests were sent, and nothing else.
C5_GoneAwayStep ==
    \A r \in KsockIds :
        close(r) =>
            \A s \in KsockIds \ {r} :
                IsOpen(s) =>
                    ToldOf(queue'[s], queue[s], Unanswered(r, s),
                           ReplierGoneAway, r, s)

C5_GoneAway == [][C5_GoneAwayStep]_vars

\* Ksock 2 has closed and Ksock 1 has been told of its two requests
C5_Witness ==
    /\ ksocks[2] = "closed"
    /\ Len(queue[1]) = 2
    /\ IsStatus(queue[1][1], ReplierGoneAway, 1)
    /\ IsStatus(queue[1][2], ReplierGoneAway, 2)

\* the unanswered requests that s sent and r was given through its replier
\* binding to `name`, oldest first
UnansweredVia(r, name, s) ==
    SelectSeq(outstanding,
              LAMBDA o : o.replier = r /\ o.binding = name /\ o.sender = s)

\* C6: when Ksock 2 unbinds as replier from a name, every open Ksock s gets
\* at the end of its queue one $.KBUS.Replier.Unbound (SYNTHETIC, no data,
\* from 2) for each unanswered request it sent that 2 was given through
\* that binding; the copies with WANT_YOU_TO_REPLY of these requests leave
\* the queue of 2, and every other message on it stays, in the same order.
C6_UnboundStep ==
    \A name \in UnbindNames :
        (unbind(2, name, TRUE) /\ ret'.errno = "OK") =>
            LET lost == {o.id : o \in {p \in Range(outstanding) :
                                         p.replier = 2 /\ p.binding = name}}
                kept == SelectSeq(queue[2],
                            LAMBDA x : ~(wants_us_to_reply(x) /\ x.id \in lost))
            IN /\ \A s \in KsockIds \ {2} :
                      ToldOf(queue'[s], queue[s], UnansweredVia(2, name, s),
                             ReplierUnbound, 2, s)
               /\ ToldOf(queue'[2], kept, UnansweredVia(2, name, 2),
                         ReplierUnbound, 2, 2)

C6_Unbound == [][C6_UnboundStep]_vars

\* Ksock 2 has unbound as replier from $.Fred: the request $.Fred it had
\* been given is gone from its queue and Ksock 1 is told; the copy of that
\* request it has as a listener and the request $.Jim are still queued
C6_Witness ==
    /\ ~BagIn(Binding(Fred, 2, TRUE), bindings)
    /\ Len(queue[1]) = 1
    /\ IsStatus(queue[1][1], ReplierUnbound, 1)
    /\ Len(queue[2]) = 3
    /\ queue[2][1].id = 1 /\ ~wants_us_to_reply(queue[2][1])
    /\ queue[2][2].id = 2 /\ wants_us_to_reply(queue[2][2])
    /\ queue[2][2].name = Jim
    /\ queue[2][3].id = 2 /\ ~wants_us_to_reply(queue[2][3])

\* C7: a request sent, with neither ALL_OR_WAIT nor ALL_OR_FAIL, to a
\* replier whose queue is full is not refused: the send returns the new
\* message id, no queue gets a copy with WANT_YOU_TO_REPLY, and the sender's
\* queue gets one $.KBUS.Replier.QueueFull, SYNTHETIC and without data,
\* in_reply_to that message id.
C7_QueueFullStep ==
    \A k \in Senders, m \in Msgs :
        (/\ is_request(m)
         /\ MatchingRepliers(m.name) # {}
         /\ QueueIsFull(queue, FindReplier(m.name).ksock)
         /\ send(k, m)) =>
            LET id == last_msg_id + 1
            IN /\ ret' = Ret("OK", id)
               /\ \A j \in KsockIds : FlaggedCopiesOf(queue'[j], id) = 0
               /\ Len(queue'[k]) = Len(queue[k]) + 1
               /\ SubSeq(queue'[k], 1, Len(queue[k])) = queue[k]
               /\ IsStatus(Last(queue'[k]), ReplierQueueFull, id)

C7_QueueFull == [][C7_QueueFullStep]_vars

\* queue size 1, two requests: the replier has the first, and the sender
\* is told that the second did not fit
C7_Witness ==
    /\ max_messages[2] = 1
    /\ Len(queue[2]) = 1
    /\ queue[2][1].id = 1 /\ wants_us_to_reply(queue[2][1])
    /\ ret = Ret("OK", 2)
    /\ Len(queue[1]) = 1
    /\ IsStatus(queue[1][1], ReplierQueueFull, 2)

\* C8 as stated: when the replier of a request has no room for it, every
\* listener for the request that has room still gets its copy.
C8_OriginalStep ==
    \A k \in Senders, m \in Msgs :
        (ReplierIsFull(m) /\ send(k, m)) =>
            \A j \in KsockIds :
                (MatchingListeners(m.name, j) # {} /\ ~QueueIsFull(queue, j))
                    => PlainCopiesOf(queue'[j], ret'.id) >= 1

C8_Original == [][C8_OriginalStep]_vars

\* C8, amended: when the replier of a request has no room for it, the
\* listeners for the request are not sent it either: the send leaves every
\* queue but the sender's as it was.
C8_ListenersLeftStep ==
    \A k \in Senders, m \in Msgs :
        (ReplierIsFull(m) /\ send(k, m)) =>
            \A j \in KsockIds \ {k} : queue'[j] = queue[j]

C8_ListenersLeft == [][C8_ListenersLeftStep]_vars

\* the sender has just been told that the replier's queue is full, and a
\* listener for $.Fred has an empty queue
C8_Witness ==
    /\ ret.id > 0
    /\ \E i \in 1 .. Len(queue[1]) :
          IsStatus(queue[1][i], ReplierQueueFull, ret.id)
    /\ \E j \in KsockIds : MatchingListeners(Fred, j) # {} /\ queue[j] = <<>>

\* C9: when the replier of a request has no room for it, no queue gets a
\* copy of the request; and no queue holds a copy of a request that a
\* queued $.KBUS.Replier.QueueFull is about.
C9_NoCopyStep ==
    \A k \in Senders, m \in Msgs :
        (ReplierIsFull(m) /\ send(k, m)) =>
            \A j \in KsockIds : CopiesOf(queue'[j], ret'.id) = 0

C9_NoCopy ==
    /\ [][C9_NoCopyStep]_vars
    /\ [](\A j \in KsockIds, s \in KsockIds :
             \A i \in 1 .. Len(queue[s]) :
                 queue[s][i].name = ReplierQueueFull =>
                     CopiesOf(queue[j], queue[s][i].in_reply_to) = 0)

\* as in the test: the replier (queue size 1) has the first request, the
\* sender is told about the second, and the listener has the first only
C9_Witness ==
    /\ BagIn(Binding(Fred, 2, TRUE), bindings)
    /\ BagIn(Binding(Fred, 3, FALSE), bindings)
    /\ max_messages[2] = 1
    /\ FlaggedCopiesOf(queue[2], 1) = 1
    /\ \E i \in 1 .. Len(queue[1]) : IsStatus(queue[1][i], ReplierQueueFull, 2)
    /\ Len(queue[3]) = 1
    /\ queue[3][1].id = 1

\* C10: a send with neither ALL_OR_WAIT nor ALL_OR_FAIL, whose replier (if
\* it is a request) has room, succeeds when listeners for it have full
\* queues: a full listener's queue is left as it was, a listener with room
\* gets its copy, and no queue gets a synthetic message.
C10_SilentDropStep ==
    \A k \in Senders, m \in Msgs :
        (/\ is_request(m) => (Recipient(m) # 0 /\ ~ReplierIsFull(m))
         /\ \E j \in KsockIds :
               MatchingListeners(m.name, j) # {} /\ QueueIsFull(queue, j)
         /\ send(k, m)) =>
            LET id == last_msg_id + 1
                taken(j) == IF j = Recipient(m) THEN 1 ELSE 0
            IN /\ ret' = Ret("OK", id)
               /\ \A j \in KsockIds :
                     MatchingListeners(m.name, j) # {} =>
                         IF QueueIsFull(queue, j)
                         THEN queue'[j] = queue[j]
                         ELSE RoomIn(queue, j) > taken(j) =>
                                  PlainCopiesOf(queue'[j], id) >= 1
               /\ \A j \in KsockIds :
                     NumSynthetic(queue'[j]) = NumSynthetic(queue[j])

C10_SilentDrop == [][C10_SilentDropStep]_vars

\* as in the test: a listener with queue size 1 has the first of two
\* messages, the second send succeeded, and nobody has a synthetic message
C10_Witness ==
    /\ MatchingListeners(Fred, 2) # {}
    /\ MatchingRepliers(Fred) = {}
    /\ max_messages[2] = 1
    /\ Len(queue[2]) = 1
    /\ queue[2][1].id = 1
    /\ ret = Ret("OK", 2)
    /\ \A j \in KsockIds : NumSynthetic(queue[j]) = 0

\* the positions in q of the copies of message `id`
PlacesOf(q, id) == {i \in 1 .. Len(q) : q[i].id = id}

\* the messages of q that are not urgent, in the order they have in q
NotUrgent(q) == SelectSeq(q, LAMBDA x : ~is_urgent(x))

\* C11: a queue is read from its front, and in it the messages that are not
\* urgent are in the order in which they were sent (message ids grow with
\* every send): a message that is not urgent and is sent to a Ksock with
\* room is added once at the back, nothing else in the queue moving, and an
\* urgent message is put before every message of the queue that is not
\* urgent.
C11_FifoStep ==
    \A m \in UrgentMsgs, j \in KsockIds :
        (RoomIn(queue, j) >= 1 /\ send(1, m) /\ ret'.errno = "OK") =>
            LET id == ret'.id
                n == (IF j = Recipient(m) THEN 1 ELSE 0)
                         + ListenerCopies(m.name, j)
            IN /\ Cardinality(PlacesOf(queue'[j], id)) = n
               /\ ~is_urgent(m) =>
                      /\ Len(queue'[j]) = Len(queue[j]) + n
                      /\ SubSeq(queue'[j], 1, Len(queue[j])) = queue[j]
               /\ is_urgent(m) =>
                      /\ NotUrgent(queue'[j]) = NotUrgent(queue[j])
                      /\ \A i \in PlacesOf(queue'[j], id) :
                            \A h \in 1 .. Len(queue'[j]) :
                                ~is_urgent(queue'[j][h]) => i < h

C11_Fifo ==
    /\ [][C11_FifoStep]_vars
    /\ [](\A k \in KsockIds : \A i, h \in 1 .. Len(queue[k]) :
             (i < h /\ ~is_urgent(queue[k][i]) /\ ~is_urgent(queue[k][h]))
                 => queue[k][i].id < queue[k][h].id)
    /\ [][\A k \in KsockIds :
             read_next_msg(k) => queue'[k] = Tail(queue[k])]_vars

\* Ksock 2 was sent a message and then an urgent request: the request is at
\* the front of its queue
C11_Witness ==
    /\ Len(queue[2]) = 2
    /\ queue[2][1].id = 2 /\ is_urgent(queue[2][1])
    /\ queue[2][2].id = 1 /\ ~is_urgent(queue[2][2])

\* C12 as stated: of two urgent messages in a queue, the one sent first is
\* nearer the front.
C12_Original ==
    \A k \in KsockIds : \A i, h \in 1 .. Len(queue[k]) :
        (i < h /\ is_urgent(queue[k][i]) /\ is_urgent(queue[k][h]))
            => queue[k][i].id < queue[k][h].id

\* C12, amended: of two urgent messages in a queue, the one sent last is
\* nearer the front, and so is read first.
C12_LastFirst ==
    \A k \in KsockIds : \A i, h \in 1 .. Len(queue[k]) :
        (i < h /\ is_urgent(queue[k][i]) /\ is_urgent(queue[k][h]))
            => queue[k][i].id > queue[k][h].id

\* two urgent messages are waiting in the queue of Ksock 3
C12_Witness ==
    /\ Len(queue[3]) = 2
    /\ is_urgent(queue[3][1]) /\ is_urgent(queue[3][2])
    /\ queue[3][1].id # queue[3][2].id

\* C13: an urgent message that is sent to a Ksock with room is put at the
\* very front of its queue, whatever is there, urgent messages too, and the
\* rest of the queue follows it unchanged.
C13_VeryFrontStep ==
    \A m \in UrgentMsgs, j \in KsockIds :
        (/\ is_urgent(m)
         /\ RoomIn(queue, j) >= 1
         /\ (IF j = Recipient(m) THEN 1 ELSE 0) + ListenerCopies(m.name, j) = 1
         /\ send(1, m)
         /\ ret'.errno = "OK") =>
            /\ queue'[j] # <<>>
            /\ Head(queue'[j]).id = ret'.id
            /\ is_urgent(Head(queue'[j]))
            /\ Tail(queue'[j]) = queue[j]

C13_VeryFront == [][C13_VeryFrontStep]_vars

\* the urgent message mu1 and then the urgent request ru1 were sent to
\* Ksock 2: ru1 is read first, then mu1
C13_Witness ==
    /\ Len(queue[2]) = 2
    /\ queue[2][1].id = 2 /\ is_urgent(queue[2][1])
    /\ wants_us_to_reply(queue[2][1])
    /\ queue[2][2].id = 1 /\ is_urgent(queue[2][2])
    /\ ~wants_us_to_reply(queue[2][2])

\* q without the copies of message `id` and without the synthetic messages
\* about it
Without(q, id) ==
    SelectSeq(q, LAMBDA x : ~(x.id = id \/ (is_synthetic(x) /\ x.in_reply_to = id)))

\* the messages that Ksocks 1 and 2 send and the replies that can be sent
AnySend(k, m) ==
    /\ k \in KsockIds
    /\ \/ k \in Senders /\ m \in Msgs
       \/ \E o \in CanReplyTo(k) : m = reply_to(RequestGiven(o), "", 0).value[1]
    /\ send(k, m)

\* C14: whichever Ksock sends, and in whatever order the sends come, a send
\* that is accepted gets the id after the last one handed out and returns
\* it, every copy it queues has that id and no older message changes, and a
\* send that is refused uses no id; so no id is handed out twice and ids grow
\* in the order of the sends.
C14_IdsStep ==
    \A k \in KsockIds :
        \A m \in Msgs \cup {reply_to(RequestGiven(o), "", 0).value[1] : o \in CanReplyTo(k)} :
            AnySend(k, m) =>
                IF ret'.errno = "OK"
                THEN /\ ret'.id = last_msg_id + 1
                     /\ last_msg_id' = ret'.id
                     /\ \A j \in KsockIds :
                           /\ Without(queue'[j], ret'.id) = queue[j]
                           /\ \A i \in PlacesOf(queue'[j], ret'.id) :
                                 queue'[j][i].from = k
                ELSE ret'.id = 0 /\ last_msg_id' = last_msg_id

C14_Ids ==
    /\ [][C14_IdsStep]_vars
    /\ [][last_msg_id' >= last_msg_id]_vars
    /\ [](\A j \in KsockIds : \A i \in 1 .. Len(queue[j]) :
             IF is_synthetic(queue[j][i])
             THEN queue[j][i].id = 0
             ELSE queue[j][i].id \in 1 .. last_msg_id)

\* Ksock 1 and then Ksock 2 sent a message to the listener Ksock 3, which
\* holds them with the ids 1 and 2
C14_Witness ==
    /\ Len(queue[3]) = 2
    /\ queue[3][1].id = 1 /\ queue[3][1].from = 1
    /\ queue[3][2].id = 2 /\ queue[3][2].from = 2
    /\ ret = Ret("OK", 2)

\* the bindings of Ksock j, each counted once
BindingsOf(j) == {b \in BagToSet(bindings) : b.ksock = j}

\* how often Ksock j is bound as listener to `pattern`, if the pattern
\* matches `name`, and 0 if it does not
Times(pattern, j, name) ==
    IF NameMatches(pattern, name)
    THEN CopiesIn(Binding(pattern, j, FALSE), bindings)
    ELSE 0

\* the number of listener bindings of Ksock j that match `name`
NumListening(j, name) ==
    Times(Fred, j, name) + Times(FredJim, j, name)
        + Times(FredStar, j, name) + Times(FredPercent, j, name)

\* C15: a message is sent to a Ksock once for each of its listener bindings
\* that match the name, the same binding made twice counting twice: with
\* room for them the Ksock gets exactly that many copies, all with the id
\* the send returned; and a message that matches no binding at all is
\* accepted and changes no queue.
C15_PerBindingStep ==
    \A m \in ListenMsgs :
        (~ReplierIsFull(m) /\ send(1, m) /\ ret'.errno = "OK") =>
            /\ \A j \in KsockIds :
                  LET n == NumListening(j, m.name)
                      r == IF j = Recipient(m) THEN 1 ELSE 0
                  IN RoomIn(queue, j) >= n + r =>
                         /\ PlainCopiesOf(queue'[j], ret'.id) = n
                         /\ Len(queue'[j]) = Len(queue[j]) + n + r
            /\ (\A b \in BagToSet(bindings) : ~NameMatches(b.name, m.name))
                   => queue' = queue

C15_PerBinding == [][C15_PerBindingStep]_vars

\* Ksock 2 is bound twice as listener to $.Fred.Jim and holds two copies of
\* one message
C15_Witness ==
    /\ CopiesIn(Binding(FredJim, 2, FALSE), bindings) = 2
    /\ Len(queue[2]) = 2
    /\ queue[2][1].id = 1 /\ queue[2][2].id = 1
    /\ queue[2][1].name = FredJim

\* the Ksock j is bound to `pattern` as listener, and to nothing else
ListensOnlyTo(j, pattern) == BindingsOf(j) = {Binding(pattern, j, FALSE)}

\* the number of copies that j is sent of a message that 1 sends
Delivered(j) == Len(queue'[j]) - Len(queue[j])

\* C16 as stated: a listener for $.Fred.* is sent every message whose name
\* is $.Fred followed by no, one or more components, and no other.
C16_OriginalStep ==
    \A m \in ListenMsgs, j \in Binders :
        (/\ ListensOnlyTo(j, FredStar)
         /\ ~is_request(m)
         /\ ~QueueIsFull(queue, j)
         /\ send(1, m)) =>
            (Delivered(j) >= 1 <=> (Len(m.name) >= 1 /\ m.name[1] = "Fred"))

C16_Original == [][C16_OriginalStep]_vars

\* C16, amended: a listener for $.Fred.* is sent every message whose name
\* is $.Fred followed by one or more components, and no other.
C16_StarStep ==
    \A m \in ListenMsgs, j \in Binders :
        (/\ ListensOnlyTo(j, FredStar)
         /\ ~is_request(m)
         /\ ~QueueIsFull(queue, j)
         /\ send(1, m)) =>
            (Delivered(j) >= 1 <=> (Len(m.name) >= 2 /\ m.name[1] = "Fred"))

C16_Star == [][C16_StarStep]_vars

\* a listener for $.Fred.* alone holds $.Fred.Jim.Bob
C16_Witness ==
    /\ ListensOnlyTo(2, FredStar)
    /\ Len(queue[2]) = 1
    /\ queue[2][1].name = FredJimBob
    /\ ~is_request(queue[2][1])

\* C17: $.Fred.* does not match $.Fred: when the only bindings are replier
\* bindings to $.Fred.*, a request $.Fred fails with EADDRNOTAVAIL and one
\* called $.Fred.Jim.Bob is accepted; when they are listener bindings to
\* $.Fred.*, a message $.Fred is accepted and changes no queue, and $.Fred.Jim
\* and $.Fred.Jim.Bob are put on the listeners' queues.
C17_NotBareStep ==
    \A m \in ListenMsgs :
        /\ (/\ BagToSet(bindings) # {}
            /\ \A b \in BagToSet(bindings) : b.name = FredStar /\ b.replier
            /\ is_request(m)
            /\ send(1, m)) =>
               IF m.name = Fred
               THEN ret' = Ret("EADDRNOTAVAIL", 0) /\ queue' = queue
               ELSE ret'.errno = "OK"
        /\ (/\ BagToSet(bindings) # {}
            /\ \A b \in BagToSet(bindings) : b.name = FredStar /\ ~b.replier
            /\ ~is_request(m)
            /\ send(1, m)) =>
               /\ ret'.errno = "OK"
               /\ m.name = Fred => queue' = queue
               /\ m.name \in {FredJim, FredJimBob} =>
                      \A j \in Binders :
                          (BindingsOf(j) # {} /\ ~QueueIsFull(queue, j))
                              => Delivered(j) >= 1

C17_NotBare == [][C17_NotBareStep]_vars

\* a request $.Fred has just failed for want of a replier, the only binding
\* being a replier's to $.Fred.*
C17_Witness ==
    /\ BagToSet(bindings) = {Binding(FredStar, 2, TRUE)}
    /\ ret = Ret("EADDRNOTAVAIL", 0)

\* C18: a listener for $.Fred.% is sent, once for each such binding, every
\* message whose name is $.Fred followed by exactly one component, and no
\* other: not $.Fred.Jim.Bob, not $.Fred, not $.Jim.Fred.
C18_PercentStep ==
    \A m \in ListenMsgs, j \in Binders :
        (/\ ListensOnlyTo(j, FredPercent)
         /\ ~is_request(m)
         /\ RoomIn(queue, j) >= CopiesIn(Binding(FredPercent, j, FALSE), bindings)
         /\ send(1, m)) =>
            Delivered(j) = IF Len(m.name) = 2 /\ m.name[1] = "Fred"
                           THEN CopiesIn(Binding(FredPercent, j, FALSE), bindings)
                           ELSE 0

C18_Percent == [][C18_PercentStep]_vars

\* a listener for $.Fred.% alone was sent $.Fred.Jim and then $.Fred.Jim.Bob,
\* and holds the first only
C18_Witness ==
    /\ ListensOnlyTo(2, FredPercent)
    /\ last_msg_id = 2
    /\ Len(queue[2]) = 1
    /\ queue[2][1].name = FredJim /\ queue[2][1].id = 1
    /\ ret = Ret("OK", 2)

\* the Ksock j is bound as listener once to $.Fred.* and once to $.Fred.%,
\* and to nothing else
ListensToBoth(j) ==
    /\ BindingsOf(j) = {Binding(FredStar, j, FALSE),
                        Binding(FredPercent, j, FALSE)}
    /\ \A b \in BindingsOf(j) : CopiesIn(b, bindings) = 1

\* C19 as stated: a Ksock that listens for $.Fred.* and for $.Fred.% is sent
\* a message called $.Fred.Jim.Bob twice.
C19_OriginalStep ==
    \A j \in Binders :
        (/\ ListensToBoth(j)
         /\ RoomIn(queue, j) >= 2
         /\ send(1, Message(FredJimBob, "data", 0, 0, 0))) =>
            Delivered(j) = 2

C19_Original == [][C19_OriginalStep]_vars

\* C19, amended: a Ksock that listens for $.Fred.* and for $.Fred.% is sent
\* a message called $.Fred.Jim.Bob once, for $.Fred.* alone.
C19_OnceStep ==
    \A j \in Binders :
        (/\ ListensToBoth(j)
         /\ RoomIn(queue, j) >= 2
         /\ send(1, Message(FredJimBob, "data", 0, 0, 0))) =>
            Delivered(j) = 1

C19_Once == [][C19_OnceStep]_vars

\* a listener for both $.Fred.* and $.Fred.% holds its one copy of
\* $.Fred.Jim.Bob
C19_Witness ==
    /\ ListensToBoth(2)
    /\ Len(queue[2]) = 1
    /\ queue[2][1].name = FredJimBob
    /\ ret = Ret("OK", 1)

\* C20: with Ksock 2 the replier for $.Fred.* and Ksock 3 the replier for
\* $.Fred.% (the second of these binds, whichever it is, succeeds), a request
\* $.Fred.Jim or $.Fred.Bob goes to Ksock 3 only and $.Fred.Jim.Bob to
\* Ksock 2 only; and when Ksock 1 is the replier for $.Fred.Jim as well,
\* $.Fred.Jim goes to Ksock 1 only, $.Fred.Bob still to Ksock 3 and
\* $.Fred.Jim.Bob still to Ksock 2.
C20_PercentFirstStep ==
    /\ \A m \in SpecificMsgs :
          (/\ BagIn(Binding(FredStar, 2, TRUE), bindings)
           /\ BagIn(Binding(FredPercent, 3, TRUE), bindings)
           /\ send(1, m)) =>
              LET target ==
                      IF m.name = FredJim
                             /\ BagIn(Binding(FredJim, 1, TRUE), bindings)
                      THEN 1
                      ELSE IF Len(m.name) = 2 THEN 3 ELSE 2
              IN /\ ret' = Ret("OK", last_msg_id + 1)
                 /\ ~QueueIsFull(queue, target) =>
                        \A j \in KsockIds :
                            /\ FlaggedCopiesOf(queue'[j], ret'.id)
                                   = IF j = target THEN 1 ELSE 0
                            /\ Delivered(j) = IF j = target THEN 1 ELSE 0
    /\ (/\ BagIn(Binding(FredStar, 2, TRUE), bindings)
        /\ ~BagIn(Binding(FredPercent, 3, TRUE), bindings)
        /\ bind(3, FredPercent, TRUE)) => ret'.errno = "OK"
    /\ (/\ BagIn(Binding(FredPercent, 3, TRUE), bindings)
        /\ ~BagIn(Binding(FredStar, 2, TRUE), bindings)
        /\ bind(2, FredStar, TRUE)) => ret'.errno = "OK"

C20_PercentFirst == [][C20_PercentFirstStep]_vars

\* with all three repliers bound, $.Fred.Jim was sent and is on the queue of
\* Ksock 1, then $.Fred.Bob was sent and is on the queue of Ksock 3
C20_Witness ==
    /\ BagToSet(bindings) = SpecificRepliers
    /\ Len(queue[1]) = 1 /\ queue[1][1].name = FredJim
    /\ wants_us_to_reply(queue[1][1])
    /\ Len(queue[3]) = 1 /\ queue[3][1].name = FredBob
    /\ wants_us_to_reply(queue[3][1])
    /\ queue[2] = <<>>
    /\ ret = Ret("OK", 2)

\* C21: a message whose name ends in "*" or "%" cannot be sent: the send
\* fails with EBADMSG, uses no message id and changes no queue, also when
\* a Ksock is bound to that very name; and bind takes such a name.
C21_WildcardStep ==
    /\ \A m \in FlagMsgs :
          (IsWildcard(m.name) /\ send(1, m)) =>
              /\ ret' = Ret("EBADMSG", 0)
              /\ UNCHANGED <<queue, last_msg_id, outstanding, blocked>>
    /\ \A k \in Binders, name \in {FredStar, FredPercent} :
          bind(k, name, FALSE) =>
              /\ ret'.errno = "OK"
              /\ CopiesIn(Binding(name, k, FALSE), bindings')
                     = CopiesIn(Binding(name, k, FALSE), bindings) + 1

C21_Wildcard == [][C21_WildcardStep]_vars

\* a send has failed with EBADMSG while Ksock 2 listens for $.Fred.* and
\* Ksock 3 for $.Fred.%
C21_Witness ==
    /\ BagIn(Binding(FredStar, 2, FALSE), bindings)
    /\ BagIn(Binding(FredPercent, 3, FALSE), bindings)
    /\ ret = Ret("EBADMSG", 0)

\* the number of copies that are due to Ksock j of a message or request
\* $.Fred: one for each matching listener binding, and the replier's
Due(m, j) ==
    NumListening(j, m.name)
        + (IF is_request(m) /\ BagIn(Binding(m.name, j, TRUE), bindings)
           THEN 1 ELSE 0)

\* every Ksock has room for the copies of m that are due to it
RoomForAll(m) == \A j \in KsockIds : RoomIn(queue, j) >= Due(m, j)

\* C22: a message with both ALL_OR_WAIT and ALL_OR_FAIL cannot be sent: the
\* send fails with EINVAL, uses no message id and changes no queue; with one
\* of the two flags, and room on the queues of all it is for, the message is
\* accepted and each of them gets its copies.
C22_BothFlagsStep ==
    \A m \in FlagMsgs :
        send(1, m) =>
            /\ (HasFlag(m.flags, ALL_OR_WAIT) /\ HasFlag(m.flags, ALL_OR_FAIL))
                   => /\ ret' = Ret("EINVAL", 0)
                      /\ UNCHANGED <<queue, last_msg_id, outstanding, blocked>>
            /\ (/\ HasFlag(m.flags, ALL_OR_WAIT) # HasFlag(m.flags, ALL_OR_FAIL)
                /\ ~is_request(m)
                /\ RoomForAll(m))
                   => /\ ret' = Ret("OK", last_msg_id + 1)
                      /\ \A j \in KsockIds :
                            /\ Delivered(j) = Due(m, j)
                            /\ CopiesOf(queue'[j], ret'.id) = Due(m, j)

C22_BothFlags == [][C22_BothFlagsStep]_vars

\* a send has failed with EINVAL while Ksock 2, which listens for $.Fred and
\* has room, has nothing queued
C22_Witness ==
    /\ BagIn(Binding(Fred, 2, FALSE), bindings)
    /\ queue[2] = <<>>
    /\ ret = Ret("EINVAL", 0)

\* C24: a send with ALL_OR_FAIL queues all its copies or none: if the queue
\* of any Ksock it is for is full, or has not room for all that Ksock's
\* copies, the send fails with EBUSY, uses no message id and changes no
\* queue, those with room included; otherwise every such Ksock gets all its
\* copies.
C24_AllOrFailStep ==
    \A m \in FlagMsgs :
        (/\ HasFlag(m.flags, ALL_OR_FAIL)
         /\ ~HasFlag(m.flags, ALL_OR_WAIT)
         /\ is_request(m) => RepliersBoundTo(m.name) # {}
         /\ send(1, m)) =>
            IF RoomForAll(m)
            THEN /\ ret' = Ret("OK", last_msg_id + 1)
                 /\ \A j \in KsockIds :
                       /\ Delivered(j) = Due(m, j)
                       /\ CopiesOf(queue'[j], ret'.id) = Due(m, j)
            ELSE /\ ret' = Ret("EBUSY", 0)
                 /\ UNCHANGED <<queue, last_msg_id, outstanding, blocked>>

C23_StatefulStep ==
    \A m \in StatefulMsgs :
        (m.to # 0 /\ send(1, m)) =>
            IF RepliersBoundTo(Fred) = {}
            THEN /\ ret' = Ret("EADDRNOTAVAIL", 0)
                 /\ UNCHANGED <<queue, last_msg_id, outstanding, blocked>>
            ELSE IF ~BagIn(Binding(Fred, m.to, TRUE), bindings)
            THEN /\ ret' = Ret("EPIPE", 0)
                 /\ UNCHANGED <<queue, last_msg_id, outstanding, blocked>>
            ELSE /\ ret' = Ret("OK", last_msg_id + 1)
                 /\ ~QueueIsFull(queue, m.to) =>
                        \A j \in KsockIds :
                            FlaggedCopiesOf(queue'[j], ret'.id)
                                = IF j = m.to THEN 1 ELSE 0

C23_Stateful == [][C23_StatefulStep]_vars

\* Ksock 3 was given a request that was for it; then a send has failed with
\* EPIPE, Ksock 3 being the replier still and the request being for Ksock 2
C23_Witness ==
    /\ BagIn(Binding(Fred, 3, TRUE), bindings)
    /\ Len(queue[3]) = 1
    /\ queue[3][1].to = 3 /\ wants_us_to_reply(queue[3][1])
    /\ queue[2] = <<>>
    /\ ret = Ret("EPIPE", 0)

(***************************************************************************)
(* Messages that are not requests.                                         *)
(***************************************************************************)
\* m is neither a request nor a reply
IsPlain(m) == ~is_request(m) /\ ~is_reply(m)

\* Ksock j is bound to the name as a replier and not as a listener
ReplierOnly(name, j) ==
    /\ \E b \in MatchingRepliers(name) : b.ksock = j
    /\ ListenerCopies(name, j) = 0

\* the messages of Ksock j's queue that it did not have before the step
NewIn(j) ==
    {queue'[j][i] : i \in 1 .. Len(queue'[j])} \
        {queue[j][i] : i \in 1 .. Len(queue[j])}

C27_PlainStep ==
    \A k \in Senders, m \in Msgs :
        (IsPlain(m) /\ send(k, m) /\ ret'.errno = "OK") =>
            \A j \in KsockIds :
                /\ Delivered(j) =
                       Min(ListenerCopies(m.name, j), RoomIn(queue, j))
                /\ ReplierOnly(m.name, j) => queue'[j] = queue[j]
                /\ \A c \in NewIn(j) : ~wants_us_to_reply(c)

\* C27: a message that is not a request is sent to the Ksocks that listen
\* for its name, one copy for each matching listener binding there is room
\* for, and to nobody else: a Ksock bound to the name only as a replier gets
\* no copy, and no copy asks for a reply.
C27_Plain == [][C27_PlainStep]_vars

\* a message that is not a request has just been sent while Ksock 2 was only
\* the replier for its name and Ksock 3 listened for it: Ksock 3 has its
\* copy and Ksock 2 has nothing
C27_Witness ==
    /\ ret.errno = "OK" /\ ret.id > 0 /\ ret.id = last_msg_id
    /\ ReplierOnly(Fred, 2)
    /\ queue[2] = <<>>
    /\ Len(queue[3]) = 1
    /\ queue[3][1].id = ret.id
    /\ IsPlain(queue[3][1])
    /\ ~wants_us_to_reply(queue[3][1])

(***************************************************************************)
(* Replies.                                                                *)
(***************************************************************************)
\* Ksock j has no binding that matches the name
Unbound(name, j) ==
    /\ ListenerCopies(name, j) = 0
    /\ ~\E b \in MatchingRepliers(name) : b.ksock = j

\* the places of Ksock j's queue that hold a copy of message id
QueuedAt(q, j, id) == {i \in 1 .. Len(q[j]) : q[j][i].id = id}

C28_ReplyStep ==
    \A k \in KsockIds : \A o \in CanReplyTo(k) :
        LET m == reply_to(RequestGiven(o), "", 0).value[1] IN
        (send(k, m) /\ ret'.errno = "OK" /\ RoomIn(queue, m.to) >= 1) =>
            /\ \E c \in NewIn(m.to) :
                   /\ c.id = ret'.id
                   /\ c.in_reply_to = o.id
                   /\ c.from = k
            /\ \A j \in KsockIds :
                   LET own == IF j = m.to THEN 1 ELSE 0 IN
                   /\ Delivered(j) =
                          own + Min(ListenerCopies(m.name, j),
                                    RoomIn(queue, j) - own)
                   /\ \A c \in NewIn(j) : ~wants_us_to_reply(c)
            /\ (k # m.to /\ ListenerCopies(m.name, k) = 0) =>
                   queue'[k] = queue[k]

\* C28: a reply to a request is queued for the Ksock it is addressed to, the
\* request's sender, when that Ksock has room, whether or not the Ksock is
\* bound to the reply's name; each Ksock also gets one copy for each of its
\* matching listener bindings there is room for; no copy asks for a reply;
\* and the Ksock that replied gets nothing unless the reply is addressed to
\* it or it listens for the name.
C28_Reply == [][C28_ReplyStep]_vars

\* Ksock 3 has just replied to a request of Ksock 1, which is bound to
\* nothing: Ksock 1 has the reply, the listener Ksock 2 has a copy and
\* Ksock 3 has none
C28_Witness ==
    /\ ret.errno = "OK" /\ ret.id > 0 /\ ret.id = last_msg_id
    /\ Unbound(Fred, 1)
    /\ \E i \in QueuedAt(queue, 1, ret.id) :
           /\ is_reply(queue[1][i])
           /\ queue[1][i].from = 3
           /\ ~wants_us_to_reply(queue[1][i])
    /\ QueuedAt(queue, 2, ret.id) # {}
    /\ QueuedAt(queue, 3, ret.id) = {}

(***************************************************************************)
(* Unbinding.                                                              *)
(***************************************************************************)
C29_UnbindStep ==
    \A k \in KsockIds, name \in BindNames, replier \in BOOLEAN :
        unbind(k, name, replier) =>
            LET b == Binding(name, k, replier) IN
            IF CopiesIn(b, bindings) >= 1
            THEN /\ ret'.errno = "OK"
                 /\ CopiesIn(b, bindings') = CopiesIn(b, bindings) - 1
                 /\ \A x \in BagToSet(bindings) \cup BagToSet(bindings') :
                        x # b => CopiesIn(x, bindings') = CopiesIn(x, bindings)
            ELSE /\ ret'.errno = "EINVAL"
                 /\ bindings' = bindings

\* C29: an unbind succeeds exactly when the Ksock has a binding to that
\* name in that role, and then there is one fewer of that binding and as
\* many as before of every other, so that a binding made k times can be
\* unbound k times and no more; otherwise (a name never bound, the other
\* role, one unbind too many) it fails with EINVAL and the bindings are as
\* they were.
C29_Unbind == [][C29_UnbindStep]_vars

\* an unbind has just failed while Ksock 1 was the replier for $.Fred and
\* nothing else was bound: the binding is still there
C29_Witness ==
    /\ ret.errno = "EINVAL"
    /\ CopiesIn(Binding(Fred, 1, TRUE), bindings) = 1
    /\ BagCardinality(bindings) = 1

(***************************************************************************)
(* The bindings and the Ksocks that made them.                             *)
(***************************************************************************)
\* the bindings after the step are those before it, with `more` of binding
\* b added (or taken away, if negative)
TableChangedBy(b, more) ==
    \A x \in BagToSet(bindings) \cup BagToSet(bindings') \cup {b} :
        CopiesIn(x, bindings') =
            CopiesIn(x, bindings) + (IF x = b THEN more ELSE 0)

C30_TableStep ==
    /\ \A b \in BagToSet(bindings') : ksocks'[b.ksock] = "open"
    /\ \A k \in KsockIds : open(k) => bindings' = bindings
    /\ \A k \in KsockIds, name \in BindNames, replier \in BOOLEAN :
          LET b == Binding(name, k, replier) IN
          /\ bind(k, name, replier) =>
                 TableChangedBy(b, IF ret'.errno = "OK" THEN 1 ELSE 0)
          /\ unbind(k, name, replier) =>
                 TableChangedBy(b, IF ret'.errno = "OK" THEN -1 ELSE 0)
    /\ \A k \in KsockIds :
          close(k) =>
              /\ \A x \in BagToSet(bindings) \cup BagToSet(bindings') :
                     CopiesIn(x, bindings') =
                         IF x.ksock = k THEN 0 ELSE CopiesIn(x, bindings)
              /\ \A x \in BindingsOf(k), j \in KsockIds \ {k} :
                     x.replier => bind_errno(j, x.name, TRUE)' = "OK"

\* C30: the bindings are at every moment those that open Ksocks have made
\* and not unbound: a bind that succeeds adds one binding, an unbind that
\* succeeds takes one away, a failed one and an open change nothing, and a
\* close takes away every binding of the Ksock closed and no binding of any
\* other, after which another Ksock may bind as replier to the names the
\* closed Ksock was replier for; no binding is ever that of a Ksock that
\* is not open.
C30_Table == [][C30_TableStep]_vars

\* Ksock 1 has been closed and has no binding, and Ksock 2, still open, is
\* the replier for $.Fred
C30_Witness ==
    /\ ksocks[1] = "closed"
    /\ BindingsOf(1) = {}
    /\ IsOpen(2)
    /\ CopiesIn(Binding(Fred, 2, TRUE), bindings) = 1

(***************************************************************************)
(* ALL_OR_WAIT.                                                            *)
(***************************************************************************)
\* the send of Ksock k is waiting
Suspended(k) == blocked[k] # NoMsg

\* message m of Ksock 1 has been given the next id and every Ksock has got
\* all the copies of it that are due to it
AllAtOnce(m) ==
    /\ ret' = Ret("OK", last_msg_id + 1)
    /\ \A j \in KsockIds :
          /\ Delivered(j) = Due(m, j)
          /\ CopiesOf(queue'[j], ret'.id) = Due(m, j)

C25_WaitStep ==
    /\ \A m \in WaitMsgs :
          (/\ is_request(m) => RepliersBoundTo(m.name) # {}
           /\ send(1, m)) =>
              IF RoomForAll(m)
              THEN AllAtOnce(m) /\ ~Suspended(1)'
              ELSE /\ blocked' = [blocked EXCEPT ![1] = m]
                   /\ UNCHANGED <<queue, last_msg_id, outstanding, ret>>
    /\ wake(1) =>
          /\ RoomForAll(blocked[1])
          /\ AllAtOnce(blocked[1])
          /\ ~Suspended(1)'
    /\ (Suspended(1) /\ Suspended(1)') =>
          \A j \in KsockIds : \A c \in NewIn(j) : c.from # 1

\* C25: a message sent with ALL_OR_WAIT is never sent to some and not to
\* others: when every Ksock it is for has room for its copies they all get
\* them in the one step; when one has not, the sender waits and the step
\* changes no queue and uses no message id; as long as the sender waits no
\* queue gets a message of the sender's, whatever the other Ksocks send and
\* read meanwhile; and the step that ends the wait is taken only when every
\* Ksock the message is for has room, and gives them all their copies.
C25_Wait == [][C25_WaitStep]_vars

\* Ksock 1 waits to send $.Fred: Ksock 2, a listener with room for one
\* message, has read the message that filled its queue and been sent
\* another by Ksock 3 since; Ksock 3, a listener too, has room, and has
\* nothing of Ksock 1's
C25_Witness ==
    /\ Suspended(1)
    /\ NumListening(2, Fred) > 0 /\ NumListening(3, Fred) > 0
    /\ max_messages[2] = 1
    /\ Len(queue[2]) = 1 /\ queue[2][1].id = 2 /\ queue[2][1].from = 3
    /\ RoomIn(queue, 3) >= Due(blocked[1], 3)
    /\ \A i \in 1 .. Len(queue[3]) : queue[3][i].from # 1

\* Ksock 1 does not wait, its last send went through, and every Ksock has
\* as many copies of that message as it has listener bindings to $.Fred
Completed ==
    /\ ~Suspended(1)
    /\ ret = Ret("OK", last_msg_id)
    /\ \A j \in KsockIds :
          CopiesOf(queue[j], last_msg_id) = Due(WaitMsg, j)
    /\ \E j \in KsockIds : \E i \in QueuedAt(queue, j, last_msg_id) :
          queue[j][i].from = 1 /\ HasFlag(queue[j][i].flags, ALL_OR_WAIT)

CanHold == \A j \in KsockIds : max_messages[j] >= Due(WaitMsg, j)

C31_RoundTripStep ==
    \A beyond \in Beyond :
        WireFromBytes(beyond) =>
            /\ result'.error = ""
            /\ Message__eq__(result'.value[1], msg1)
            /\ extract(result'.value[1]) = extract(msg1)
            /\ equivalent(result'.value[1], msg1)

\* C31: Message.from_bytes(m.to_bytes()) is a message that is == m, has
\* the id, in_reply_to, to, from_, orig_from, final_to, flags, name and
\* data of m, and is equivalent to m, whatever these are and whatever lies
\* in memory after the bytes.
C31_RoundTrip == [][C31_RoundTripStep]_vars

\* a message with data has been to bytes and back on a build with 8-byte
\* pointers, and the structure it now is ends with padding that was read
\* from beyond the end of the bytes
C31_Witness ==
    /\ sizeof_pointer = 8
    /\ result.error = ""
    /\ result.value # None
    /\ Message_data(msg1) # None
    /\ Message_id(msg1) # None
    /\ result.value[1].msg.padding = <<90, 90, 90, 90>>

\* the least k with 4 * k >= n
Ceil4(n) == CHOOSE k \in 0 .. n : 4 * k >= n /\ 4 * (k - 1) < n

LexBefore(a, b) ==
    \/ a.network_id < b.network_id
    \/ a.network_id = b.network_id /\ a.serial_num < b.serial_num

\* C33: for message ids a, b and c, exactly one of a < b, a == b and a > b
\* holds; a == b exactly when both fields are equal; a < b exactly when
\* (network_id, serial_num) of a is before that of b in dictionary order;
\* a < b exactly when b > a; and a < b and b < c give a < c.
C33_TotalOrder ==
    result.value # None =>
        LET a == msg1[1]
            b == msg2[1]
            c == msg3[1]
            r == result.value[1]
        IN /\ r.ab \in {-1, 0, 1}
           /\ Cardinality({x \in {"lt", "eq", "gt"} :
                              \/ x = "lt" /\ r.ab < 0
                              \/ x = "eq" /\ r.ab = 0
                              \/ x = "gt" /\ r.ab > 0}) = 1
           /\ r.aa = 0
           /\ (r.ab = 0) <=>
                  (a.network_id = b.network_id /\ a.serial_num = b.serial_num)
           /\ (r.ab < 0) <=> LexBefore(a, b)
           /\ (r.ab > 0) <=> LexBefore(b, a)
           /\ (r.ab < 0) <=> (r.ba > 0)
           /\ (r.ab = 0) <=> (r.ba = 0)
           /\ (r.ab < 0 /\ r.bc < 0) => r.ac < 0
           /\ (r.ab <= 0 /\ r.bc <= 0) => r.ac <= 0
           /\ (r.ab <= 0 /\ r.ba <= 0) => a = b

\* a < b < c have been compared, where a has the greater serial number
\* than b and b the greater serial number than c
C33_Witness ==
    /\ result.value # None
    /\ result.value[1].ab < 0 /\ result.value[1].bc < 0
    /\ msg1[1].serial_num > msg2[1].serial_num
    /\ msg2[1].serial_num > msg3[1].serial_num

(***************************************************************************)
(* messages.py: equivalent messages.                                       *)
(***************************************************************************)
\* C34: a.equivalent(b) is true exactly when a and b have the same `to`,
\* the same name and the same data, whatever their id, flags, in_reply_to,
\* from_, orig_from and final_to are; it is the same for the messages as
\* pointy messages and as entire messages; a.equivalent(a) is true,
\* a.equivalent(b) is b.equivalent(a), and a.equivalent(b) and
\* b.equivalent(c) give a.equivalent(c).
C34_Equivalent ==
    result.value # None =>
        LET r == result.value[1] IN
        /\ r.ab <=> /\ extract(msg1).to = extract(msg2).to
                    /\ extract(msg1).name = extract(msg2).name
                    /\ extract(msg1).data = extract(msg2).data
        /\ r.pointy = r.ab
        /\ r.entire = r.ab
        /\ r.aa
        /\ r.ab = r.ba
        /\ (r.ab /\ r.bc) => r.ac

\* a pointy message and an entire message that differ in every field but
\* `to`, name and data have been found equivalent, and equivalent to a third
C34_Witness ==
    /\ result.value # None
    /\ result.value[1].ab /\ result.value[1].bc
    /\ msg1.msg.is_pointy /\ ~msg2.msg.is_pointy
    /\ extract(msg1).data # None
    /\ extract(msg1).flags # extract(msg2).flags
    /\ extract(msg1).id # extract(msg2).id
    /\ extract(msg1).in_reply_to # extract(msg2).in_reply_to
    /\ extract(msg1).from_ # extract(msg2).from_
    /\ extract(msg1).orig_from # extract(msg2).orig_from
    /\ extract(msg1).final_to # extract(msg2).final_to

(***************************************************************************)
(* messages.py: Announcements.                                             *)
(***************************************************************************)
\* the flags of the source message or bytes the Announcement was made from
SourceFlags(made) ==
    IF made.how = "__init__" THEN 0 ELSE extract(msg1).flags

\* C35: an Announcement has in_reply_to (and orig_from and final_to) clear
\* after each of its constructors, whatever the message or bytes it was made
\* from contain; its flags are not cleared: they are the flags argument when
\* one is given, and otherwise the flags of the source message or bytes.
C35_Cleared ==
    result.value # None =>
        LET r == result.value[1]
            x == extract(r.made)
        IN /\ r.made.class = "Announcement"
           /\ x.in_reply_to = None
           /\ x.orig_from = None
           /\ x.final_to = None
           /\ x.flags = IF r.flags # None THEN r.flags[1] ELSE SourceFlags(r)
           /\ x.name = extract(msg1).name
           /\ x.data = extract(msg1).data

\* an Announcement made from the bytes of a message that is a reply and a
\* request: it is in reply to nothing, and still has the flags of a request
C35_Witness ==
    /\ result.value # None
    /\ result.value[1].how = "from_bytes"
    /\ extract(msg1).in_reply_to # None
    /\ extract(msg1).orig_from # None
    /\ HasFlag(extract(msg1).flags, WANT_YOU_TO_REPLY)
    /\ extract(result.value[1].made).in_reply_to = None
    /\ HasFlag(extract(result.value[1].made).flags, WANT_YOU_TO_REPLY)

\* the claim as it was made: WANT_A_REPLY, WANT_YOU_TO_REPLY and in_reply_to
\* are all clear in an Announcement, however it was made
C35_Original ==
    result.value # None =>
        LET x == extract(result.value[1].made) IN
        /\ ~HasFlag(x.flags, WANT_A_REPLY)
        /\ ~HasFlag(x.flags, WANT_YOU_TO_REPLY)
        /\ x.in_reply_to = None

(***************************************************************************)
(* messages.py: reply_to.                                                  *)
(***************************************************************************)
\* C36: reply_to(original) raises ValueError unless original has both
\* WANT_A_REPLY and WANT_YOU_TO_REPLY set; the Reply it returns has the
\* name of original, to = original.from_, in_reply_to = original.id, no id
\* and no from_ of its own, and the flags and the data it was called with,
\* none of the flags or data of original.
C36_ReplyTo ==
    (result # NoResult /\ msg2 # None) =>
        LET original == msg1[1]
            given == msg2[1]
            wanted == /\ HasFlag(original.flags, WANT_A_REPLY)
                      /\ HasFlag(original.flags, WANT_YOU_TO_REPLY)
        IN /\ ~wanted => result = Raised("ValueError")
           /\ result.error # "" => result = Raised("ValueError")
           /\ result.error = "" <=> (wanted /\ original.id # 0)
           /\ result.error = "" =>
                  LET reply == result.value[1] IN
                  /\ reply.name = original.name
                  /\ reply.to = original.from
                  /\ reply.in_reply_to = original.id
                  /\ reply.id = 0
                  /\ reply.from = 0
                  /\ reply.flags = given.flags
                  /\ reply.data = given.data

\* the reply to an urgent request with data, itself in reply to another
\* message: it has none of the request's flags and no data
C36_Witness ==
    /\ result # NoResult /\ msg2 # None
    /\ result.error = ""
    /\ HasFlag(msg1[1].flags, URGENT)
    /\ msg1[1].data = "data"
    /\ msg1[1].in_reply_to = 3
    /\ msg1[1].to = 2
    /\ result.value[1].flags = 0
    /\ result.value[1].data = ""
    /\ result.value[1].in_reply_to = msg1[1].id

(***************************************************************************)
(* What becomes of a request.                                              *)
(***************************************************************************)
\* the ids of the requests that are with a replier and unanswered
PendingIds == {o.id : o \in Range(outstanding)}

PendingIdsNext == {o.id : o \in Range(outstanding')}

\* the messages about request `id` that this step adds to the queue of j
NewAbout(j, id) ==
    IF Len(queue'[j]) > Len(queue[j])
    THEN {x \in NewIn(j) : x.in_reply_to = id}
    ELSE {}

\* how many messages about request `id` this step adds to the queue of j
NumNewAbout(j, id) ==
    IF Len(queue'[j]) > Len(queue[j])
    THEN Count(queue'[j], LAMBDA x : x.in_reply_to = id)
             - Count(queue[j], LAMBDA x : x.in_reply_to = id)
    ELSE 0

\* the messages about request `id` that this step adds to any queue
Outcomes(id) == UNION {NewAbout(j, id) : j \in KsockIds}

C37_OutcomeStep ==
    \A id \in 1 .. last_msg_id' :
        /\ id \in PendingIdsNext \ PendingIds => id = last_msg_id + 1
        /\ (id <= last_msg_id /\ id \notin PendingIds) => Outcomes(id) = {}
        /\ Outcomes(id) # {} =>
              /\ id \notin PendingIdsNext
              /\ Cardinality(Outcomes(id)) = 1
              /\ \A x \in Outcomes(id) :
                    \/ /\ ~is_synthetic(x)
                       /\ x.id = last_msg_id'
                       /\ id \in PendingIds
                    \/ /\ is_synthetic(x)
                       /\ x.name \in {ReplierGoneAway, ReplierUnbound}
                       /\ id \in PendingIds
                       /\ \A j \in KsockIds : NumNewAbout(j, id) <= 1
                    \/ /\ is_synthetic(x)
                       /\ x.name = ReplierQueueFull
                       /\ id = last_msg_id + 1
                       /\ \A j \in KsockIds : NumNewAbout(j, id) <= 1
              /\ \A j \in KsockIds : \A x \in NewAbout(j, id) :
                    is_synthetic(x) => j = x.to

C38_AlwaysToldStep ==
    \A r \in Binders :
        close(r) =>
            \A s \in KsockIds \ {r} :
                IsOpen(s) =>
                    /\ ToldOf(queue'[s], queue[s], Unanswered(r, s),
                              ReplierGoneAway, r, s)
                    /\ (QueueIsFull(queue, s) /\ Unanswered(r, s) # <<>>) =>
                           Len(queue'[s]) > max_messages[s]

NumSent(q) == Count(q, LAMBDA x : ~is_synthetic(x))

\* a queue that is full is changed only by taking messages from it and by
\* adding synthetic messages at its end
C39_FullStep ==
    \A j \in KsockIds :
        (QueueIsFull(queue, j) /\ Len(queue'[j]) > Len(queue[j])) =>
            /\ SubSeq(queue'[j], 1, Len(queue[j])) = queue[j]
            /\ \A i \in Len(queue[j]) + 1 .. Len(queue'[j]) :
                  is_synthetic(queue'[j][i])

C40_CancelStep ==
    /\ (close(1) /\ Suspended(1)) =>
          /\ ret' = Ret("Cancelled", 0)
          /\ blocked'[1] = NoMsg
          /\ last_msg_id' = last_msg_id
          /\ \A j \in KsockIds \ {1} : queue'[j] = queue[j]
    /\ ksocks[1] = "closed" =>
          /\ ksocks'[1] = "closed"
          /\ ~wake(1)
          /\ \A j \in KsockIds : \A x \in NewIn(j) : x.from # 1

\* C40: when Ksock 1 closes while its ALL_OR_WAIT send is suspended, the
\* send returns Cancelled, no message id is used for it and no queue gets a
\* copy of its message; a Ksock that is closed has no suspended send, and
\* from then on no queue is added a message from Ksock 1, whatever room the
\* queues come to have.
C40_Cancelled ==
    /\ [][C40_CancelStep]_vars
    /\ [](\A k \in KsockIds : ksocks[k] = "closed" => blocked[k] = NoMsg)

\* Ksock 1 has closed and its suspended send has returned Cancelled, when
\* the Ksocks that listen for $.Fred had room for the message again
C40_Witness ==
    /\ ksocks[1] = "closed"
    /\ ret = Ret("Cancelled", 0)
    /\ \E j \in Binders : NumListening(j, Fred) > 0
    /\ \A j \in Binders : queue[j] = <<>>

====
